---- MODULE Spec2Model ----
(***************************************************************************)
(* Session lifecycle and reconciliation subsystem: the browser reconciler  *)
(* with its port allocator and daemon controller, the viewer reference     *)
(* counter of the browser stream handler, and the multiplayer channel bus. *)
(***************************************************************************)
EXTENDS Integers, Sequences, FiniteSets, Bags, TLC

(***************************************************************************)
(* Bounds                                                                  *)
(***************************************************************************)
NumPorts == 1

MaxViewers == 1

\* browser stream sockets opened in a run
MaxOpens == 3

\* client messages handled by the bus in a run
MaxClientMsgs == 2

\* deltas published on the bus in a run
MaxDeltas == 1

(***************************************************************************)
(* Program constants                                                       *)
(***************************************************************************)
MAX_RETRIES == 3

NullPort == 0

Sessions == {"s1", "s2"}

SessionOrder == <<"s1", "s2">>

range == [start |-> 9300, end |-> 9300 + NumPorts - 1]

Urls == {"null", "about:blank", "http://app"}

\* the sessions whose browser is ever on a page (the others stay on no page)
UrlSessions == {"s1"}

\* pendingCleanups has no entry for the session
NoTimer == 0

BASE_STREAM_PORT == 9223

\* the browser stream sockets
StreamSockets == {"v1", "v2"}

\* the sockets of the channel bus
Sockets == {"w1", "w2"}

\* the paths clients name: a channel without hooks, a channel with an authorize hook and
\* an onEvent handler, and a path that matches no channel
Paths == {"open", "guarded", "unknown"}

VARIABLES
    stateStore,       \* sessionId -> BrowserSessionState
    allocatedPorts,   \* the port allocator's Set<number>
    activeSessions,   \* the daemon manager's map: sessionId -> {exists, port, ready}
    viewerCount,      \* orchestrator: viewers per session
    cleanupArmed,     \* orchestrator: the cleanupDelayMs timer is pending
    pending,          \* reconcileAll: the session snapshots still to reconcile
    lastStep,         \* history: what the last reconcileSession saw and did (kept for
                      \* the sessions whose okTicks is tracked)
    startCalls,       \* history: daemonController.start calls since the retry count was reset
    okTicks           \* history: reconciles in a row, since a subscribe from stopped/stopped,
                      \* that saw desired = running and whose daemon calls succeeded
                      \* (-1: none; -2: not tracked in this specification)

VARIABLES
    held              \* history: the ports that have a holder (loaded at construction,
                      \* reserved, or allocated and not released since)

VARIABLES
    subscriberCounts, \* viewer counter: sessionId -> number of stream sockets
    pendingCleanups,  \* viewer counter: sessionId -> handle of the pending cleanup timeout
    timers,           \* the runtime's timeouts that are set and not cleared or fired
    timerSeq,         \* the number of timeouts set so far (the next handle is timerSeq + 1)
    streamSockets,    \* browser stream socket -> the session it views ("none": not open)
    opened,           \* the number of stream sockets opened so far
    browserRequests,  \* start and stop requests on their way to the browser service
    nextStreamPort,   \* the daemon manager's port counter
    cancelled         \* history: the timeouts a subscribe cleared

VARIABLES
    subscriptions,    \* bus socket -> ws.data.subscriptions
    topics,           \* bus socket -> the topics the socket is subscribed to (ws.subscribe)
    closed,           \* bus socket -> the socket has closed
    authorizing,      \* bus socket -> path -> subscribes waiting for the authorize hook
    loading,          \* bus socket -> path -> subscribes waiting for the snapshot loader
    outbox,           \* bus socket -> the messages sent to it, in order
    clientMsgs,       \* the number of client messages handled so far
    published,        \* the number of deltas published so far
    lastRequest,      \* history: bus socket -> path -> the last subscribe or unsubscribe
                      \* message handled, and what the socket had received by then
    snapshotsSent     \* history: bus socket -> path -> the snapshot messages sent to the
                      \* socket for the path since the path was last absent from its
                      \* subscriptions

VARIABLES
    pendingB          \* a second reconcileAll in progress: its snapshots still to reconcile

VARIABLES
    tickLog           \* history: the sessions the reconcileAll in progress (or the last
                      \* one) attempted, its errors array, and the errors it raised

VARIABLES
    sessionRows,          \* sessions table: row id -> {status, title} ("absent": no row)
    sessionContainers,    \* session_containers table: row id -> definition -> {present, dockerId}
    containerDefinitions, \* the project's container definitions
    poolSize,             \* the project's poolSize
    nextRowId,            \* the id the next inserted Session row gets
    dockerContainers,     \* the containers that exist in the container provider
    resources,            \* row id -> {browser, proxy, network}: what exists for the session
    publishLog,           \* the messages the publisher was asked to publish (a bag)
    background,           \* the background work scheduled and not yet run
    cleanups,             \* cleanupSession call -> its position and what it has read
    stoppedBy             \* history: docker container -> the calls that stopped and removed it

VARIABLES
    wsState,          \* proxy: the client socket ("new", "open", "closed")
    upstreamWs,       \* proxy: ws.data.upstreamWs ("null") or its readyState
    pendingMessages,  \* proxy: ws.data.pendingMessages
    sentFrames,       \* the number of frames the client has sent (frame k is the k-th)
    upstreamFrames,   \* the frames the upstream has received, in order
    downFrames,       \* the number of frames the upstream has sent
    clientFrames,     \* the frames the client has received, in order
    flushed,          \* history: the number of frames the open handler flushed (-1: not yet)
    httpExchange,     \* proxy: the last HTTP request and the response main.fetch gave
    monKind,          \* which event monitor runs ("container", "legacy", "network")
    monPc,            \* monitor: "streaming", "sleeping" or "stopped"
    monAborted,       \* monitor: abortController.signal.aborted
    retryDelay,       \* monitor: the delay of the next retry, in ms
    monFailures,      \* history: stream failures since the last event received
    monRows,          \* the SessionContainer rows the monitor reads and updates
    monLast,          \* history: the last step of the monitor
    clientChannel,    \* client: the array channel a view subscribed to
    clientData,       \* client: state.data, the local view of the channel's snapshot
    lastDelta,        \* history: the last delta applied and the data before it
    eventCounter,     \* auth flow manager: the id of the next event
    eventBuffer,      \* auth flow manager: the buffered events (their ids)
    subscribers,      \* auth flow manager: the streams subscribed
    streamState,      \* per event stream: "none", "open", "cancelled", "closed"
    enqueued,         \* per event stream: the ids of the frames enqueued, in order
    connectedWith     \* history, per stream: the Last-Event-ID and the buffer at the connect

VARIABLES
    providerContainers,       \* sandbox provider: runtime id -> the container it holds
    runtimeSeq,               \* sandbox provider: the number of containers created so far
    lastStart,                \* history: the last startContainer call and its outcome
    messages,                 \* projector: this.messages
    toolCallToMessageId,      \* projector: tool call id -> message id
    activeAssistantMessageId, \* projector: the id of the active assistant message
    messageCounter,           \* projector: the number of assistant messages created
    applied,                  \* history: the sequence numbers of the events applied
    lastMessages              \* history: this.messages before the last event

recVars == <<stateStore, allocatedPorts, activeSessions, viewerCount, cleanupArmed,
             pending, lastStep, startCalls, okTicks>>

paVars == <<held>>

refVars == <<subscriberCounts, pendingCleanups, timers, timerSeq, streamSockets, opened,
             browserRequests, nextStreamPort, cancelled>>

busVars == <<subscriptions, topics, closed, authorizing, loading, outbox, clientMsgs,
             published, snapshotsSent, lastRequest>>

ovVars == <<pendingB>>

lsVars == <<sessionRows, sessionContainers, containerDefinitions, poolSize, nextRowId,
            dockerContainers, resources, publishLog, background, cleanups, stoppedBy>>

logVars == <<tickLog>>

pxVars == <<wsState, upstreamWs, pendingMessages, sentFrames, upstreamFrames, downFrames,
            clientFrames, flushed>>

\* the proxy, the monitors, the delta reducer and the auth event stream
monVars == <<monKind, monPc, monAborted, retryDelay, monFailures, monRows, monLast>>

clVars == <<clientChannel, clientData, lastDelta>>

authVars == <<eventCounter, eventBuffer, subscribers, streamState, enqueued, connectedWith>>

rtVars == <<providerContainers, runtimeSeq, lastStart>>

msgVars == <<messages, toolCallToMessageId, activeAssistantMessageId, messageCounter, applied,
             lastMessages>>

\* the runtime manager and the message projector
lateVars == <<rtVars, msgVars>>

extVars == <<pxVars, httpExchange, monVars, clVars, authVars, lateVars>>

vars == <<recVars, paVars, refVars, busVars, ovVars, logVars, lsVars, extVars>>

\* what the actions of the browser orchestrator leave alone
nonRecVars == <<paVars, refVars, busVars, ovVars, logVars, lsVars, extVars>>

(***************************************************************************)
(* Port allocator                                                          *)
(***************************************************************************)
RangePorts(rng) == rng.start .. rng.end

\* createPortAllocator: new Set<number>(initialPorts)
createPortAllocator(initialPorts) == initialPorts

FreePorts(rng, allocated) == {p \in RangePorts(rng) : p \notin allocated}

\* allocate(): the scan throws when no port of the range is free
allocateThrows(rng, allocated) == FreePorts(rng, allocated) = {}

\* a scan from the end of the range down
HighestFree(rng, allocated) ==
    CHOOSE p \in FreePorts(rng, allocated) : \A q \in FreePorts(rng, allocated) : p >= q

LowestFree(rng, allocated) ==
    CHOOSE p \in FreePorts(rng, allocated) : \A q \in FreePorts(rng, allocated) : p <= q

\* allocate() that returns the port without adding it to the set
allocateForgets(rng, allocated) ==
    [port |-> LowestFree(rng, allocated), allocated |-> allocated]

\* allocate(): the first port of the scan start..end that is not in the set is
\* added to the set and returned
allocate(rng, allocated) ==
    [port |-> LowestFree(rng, allocated),
     allocated |-> allocated \cup {LowestFree(rng, allocated)}]

\* release that leaves the set as it is
releaseNothing(allocated, port) == allocated

release(allocated, port) == allocated \ {port}

reserve(allocated, port) == allocated \cup {port}

isAllocated(allocated, port) == port \in allocated

(***************************************************************************)
(* State store and action selection                                        *)
(***************************************************************************)
NewSession(sid) ==
    [sessionId |-> sid, desiredState |-> "stopped", actualState |-> "stopped",
     streamPort |-> NullPort, lastUrl |-> "null", retryCount |-> 0,
     errorMessage |-> "null"]

\* setActualState(sessionId, actualState, options): the options are merged
\* onto the stored record
setActualState(store, sid, actual, options) ==
    [store EXCEPT ![sid] =
        [f \in DOMAIN store[sid] |->
            IF f = "actualState" THEN actual
            ELSE IF f \in DOMAIN options THEN options[f]
            ELSE store[sid][f]]]

setLastUrl(store, sid, url) == [store EXCEPT ![sid].lastUrl = url]

setDesiredState(store, sid, desired) == [store EXCEPT ![sid].desiredState = desired]

computeRequiredAction(desired, actual) ==
    IF desired = "running"
    THEN CASE actual = "stopped"  -> "StartDaemon"
           [] actual = "starting" -> "WaitForReady"
           [] actual = "running"  -> "WaitForReady"
           [] actual = "stopping" -> "WaitForReady"
           [] actual = "error"    -> "ResetToStopped"
    ELSE CASE actual = "running"  -> "StopDaemon"
           [] actual = "starting" -> "StopDaemon"
           [] actual = "stopping" -> "WaitForReady"
           [] actual = "stopped"  -> "NoOp"
           [] actual = "error"    -> "NoOp"

(***************************************************************************)
(* Daemon manager behind the daemon controller                             *)
(***************************************************************************)
NoDaemon == [exists |-> FALSE, port |-> NullPort, ready |-> FALSE]

\* startSessionDaemon: an existing daemon is kept, a new one is not ready yet
startSessionDaemon(daemons, sid, port) ==
    IF daemons[sid].exists THEN daemons
    ELSE [daemons EXCEPT ![sid] = [exists |-> TRUE, port |-> port, ready |-> FALSE]]

stopSessionDaemon(daemons, sid) == [daemons EXCEPT ![sid] = NoDaemon]

(***************************************************************************)
(* Reconciler.  A world w is [store, ports, daemons]; a handler returns    *)
(* the world it leaves, the daemon-controller calls it made and whether    *)
(* it threw.  r holds the replies of the daemon controller.                *)
(***************************************************************************)
Result(store, ports, daemons, calls, threw) ==
    [store |-> store, ports |-> ports, daemons |-> daemons, calls |-> calls,
     threw |-> threw]

Reply(startOk, stopOk, statusOk, navigateOk, currentUrl) ==
    [startOk |-> startOk, stopOk |-> stopOk, statusOk |-> statusOk,
     navigateOk |-> navigateOk, currentUrl |-> currentUrl]

\* the replies the daemon controller can give to the calls of one action; the
\* calls an action does not make are given one fixed reply
Replies(action, session, daemon) ==
    CASE action = "StartDaemon" ->
            {Reply(ok, TRUE, TRUE, TRUE, "null") : ok \in BOOLEAN}
      [] action = "StopDaemon" ->
            {Reply(TRUE, ok, TRUE, TRUE, u) : ok \in BOOLEAN,
                u \in IF daemon.exists /\ session.sessionId \in UrlSessions THEN Urls \cup {"throw"} ELSE {"null", "throw"}}
      [] action = "WaitForReady" ->
            {Reply(TRUE, TRUE, ok, nav, "null") : ok \in BOOLEAN,
                nav \in IF session.actualState = "starting"
                           /\ session.lastUrl \notin {"null", "about:blank"}
                        THEN BOOLEAN ELSE {TRUE}}
      [] OTHER -> {Reply(TRUE, TRUE, TRUE, TRUE, "null")}

\* startSession whose retry guard lets one more attempt through
startSessionOffByOne(session, w, r) ==
    LET sid == session.sessionId
        s1 == setActualState(w.store, sid, "starting",
                  [retryCount |-> session.retryCount + 1, errorMessage |-> "null"])
        port == IF session.streamPort # NullPort THEN session.streamPort
                ELSE allocate(range, w.ports).port
        s2 == setActualState(s1, sid, "starting", [streamPort |-> port])
    IN  IF session.retryCount > MAX_RETRIES
        THEN Result(w.store, w.ports, w.daemons, {}, FALSE)
        ELSE IF session.streamPort = NullPort /\ allocateThrows(range, w.ports)
        THEN Result(s1, w.ports, w.daemons, {"allocate"}, TRUE)
        ELSE IF r.startOk
        THEN Result(s2, w.ports \cup {port}, startSessionDaemon(w.daemons, sid, port),
                    {"start"}, FALSE)
        ELSE Result(s2, w.ports \cup {port}, w.daemons, {"start"}, TRUE)

startSession(session, w, r) ==
    LET sid == session.sessionId
        s1 == setActualState(w.store, sid, "starting",
                  [retryCount |-> session.retryCount + 1, errorMessage |-> "null"])
    IN  IF session.retryCount >= MAX_RETRIES
        THEN Result(w.store, w.ports, w.daemons, {}, FALSE)
        ELSE IF session.streamPort = NullPort /\ allocateThrows(range, w.ports)
        THEN Result(s1, w.ports, w.daemons, {"allocate"}, TRUE)
        ELSE LET port == IF session.streamPort # NullPort THEN session.streamPort
                         ELSE allocate(range, w.ports).port
                 a1 == IF session.streamPort # NullPort THEN w.ports
                       ELSE allocate(range, w.ports).allocated
                 c1 == IF session.streamPort # NullPort THEN {} ELSE {"allocate"}
                 s2 == setActualState(s1, sid, "starting", [streamPort |-> port])
             IN  IF r.startOk
                 THEN Result(s2, a1, startSessionDaemon(w.daemons, sid, port),
                             c1 \cup {"start"}, FALSE)
                 ELSE Result(s2, a1, w.daemons, c1 \cup {"start"}, TRUE)

\* stopSession that releases the port before the controller has confirmed the stop
stopSessionReleasesEarly(session, w, r) ==
    LET sid == session.sessionId
        s1 == IF r.currentUrl \notin {"null", "about:blank"}
              THEN setLastUrl(w.store, sid, r.currentUrl) ELSE w.store
        s2 == setActualState(s1, sid, "stopping", <<>>)
        a1 == IF session.streamPort # NullPort
              THEN release(w.ports, session.streamPort) ELSE w.ports
        s3 == setActualState(s2, sid, "stopped",
                  [streamPort |-> NullPort, errorMessage |-> "null", retryCount |-> 0])
    IN  IF r.currentUrl = "throw"
        THEN Result(w.store, w.ports, w.daemons, {"getCurrentUrl"}, TRUE)
        ELSE IF ~r.stopOk
        THEN Result(s2, a1, w.daemons, {"getCurrentUrl", "release", "stop"}, TRUE)
        ELSE Result(s3, a1, stopSessionDaemon(w.daemons, sid),
                    {"getCurrentUrl", "release", "stop"}, FALSE)

\* stopSession whose last write leaves the released port on the record
stopSessionKeepsPort(session, w, r) ==
    LET sid == session.sessionId
        s2 == setActualState(w.store, sid, "stopping", <<>>)
        a1 == IF session.streamPort # NullPort
              THEN release(w.ports, session.streamPort) ELSE w.ports
        s3 == setActualState(s2, sid, "stopped",
                  [errorMessage |-> "null", retryCount |-> 0])
    IN  IF r.currentUrl = "throw"
        THEN Result(w.store, w.ports, w.daemons, {"getCurrentUrl"}, TRUE)
        ELSE IF ~r.stopOk
        THEN Result(s2, w.ports, w.daemons, {"getCurrentUrl", "stop"}, TRUE)
        ELSE Result(s3, a1, stopSessionDaemon(w.daemons, sid),
                    {"getCurrentUrl", "stop", "release"}, FALSE)

stopSession(session, w, r) ==
    LET sid == session.sessionId
        s1 == IF r.currentUrl \notin {"null", "about:blank"}
              THEN setLastUrl(w.store, sid, r.currentUrl) ELSE w.store
        s2 == setActualState(s1, sid, "stopping", <<>>)
        a1 == IF session.streamPort # NullPort
              THEN release(w.ports, session.streamPort) ELSE w.ports
        c1 == IF session.streamPort # NullPort THEN {"release"} ELSE {}
        s3 == setActualState(s2, sid, "stopped",
                  [streamPort |-> NullPort, errorMessage |-> "null", retryCount |-> 0])
    IN  IF r.currentUrl = "throw"
        THEN Result(w.store, w.ports, w.daemons, {"getCurrentUrl"}, TRUE)
        ELSE IF ~r.stopOk
        THEN Result(s2, w.ports, w.daemons, {"getCurrentUrl", "stop"}, TRUE)
        ELSE Result(s3, a1, stopSessionDaemon(w.daemons, sid),
                    {"getCurrentUrl", "stop"} \cup c1, FALSE)

\* getStatus: null when no daemon exists for the session
getStatus(daemons, sid) ==
    IF daemons[sid].exists
    THEN [null |-> FALSE, running |-> TRUE, ready |-> daemons[sid].ready,
          port |-> daemons[sid].port]
    ELSE [null |-> TRUE, running |-> FALSE, ready |-> FALSE, port |-> NullPort]

\* checkDaemonReady that navigates but never records the daemon as running
checkDaemonReadyNoUpdate(session, w, r) ==
    LET status == getStatus(w.daemons, session.sessionId)
    IN  IF ~r.statusOk
        THEN Result(w.store, w.ports, w.daemons, {"getStatus"}, TRUE)
        ELSE IF ~status.ready
        THEN Result(w.store, w.ports, w.daemons, {"getStatus"}, FALSE)
        ELSE IF session.lastUrl \notin {"null", "about:blank"}
        THEN Result(w.store, w.ports, w.daemons, {"getStatus", "navigate"}, ~r.navigateOk)
        ELSE Result(w.store, w.ports, w.daemons, {"getStatus"}, FALSE)

checkDaemonReady(session, w, r) ==
    LET sid == session.sessionId
        status == getStatus(w.daemons, sid)
        s1 == setActualState(w.store, sid, "running", [streamPort |-> status.port])
    IN  IF ~r.statusOk
        THEN Result(w.store, w.ports, w.daemons, {"getStatus"}, TRUE)
        ELSE IF ~status.ready
        THEN Result(w.store, w.ports, w.daemons, {"getStatus"}, FALSE)
        ELSE IF session.lastUrl \notin {"null", "about:blank"}
        THEN Result(s1, w.ports, w.daemons, {"getStatus", "navigate"}, ~r.navigateOk)
        ELSE Result(s1, w.ports, w.daemons, {"getStatus"}, FALSE)

\* checkDaemonAlive that also releases the port of a daemon found dead
checkDaemonAliveReleases(session, w, r) ==
    LET sid == session.sessionId
        status == getStatus(w.daemons, sid)
    IN  IF ~r.statusOk
        THEN Result(w.store, w.ports, w.daemons, {"getStatus"}, TRUE)
        ELSE IF ~status.running
        THEN Result(setActualState(w.store, sid, "stopped", <<>>),
                    release(w.ports, session.streamPort), w.daemons,
                    {"getStatus", "release"}, FALSE)
        ELSE Result(w.store, w.ports, w.daemons, {"getStatus"}, FALSE)

checkDaemonAlive(session, w, r) ==
    LET sid == session.sessionId
        status == getStatus(w.daemons, sid)
    IN  IF ~r.statusOk
        THEN Result(w.store, w.ports, w.daemons, {"getStatus"}, TRUE)
        ELSE IF ~status.running
        THEN Result(setActualState(w.store, sid, "stopped", <<>>), w.ports, w.daemons,
                    {"getStatus"}, FALSE)
        ELSE Result(w.store, w.ports, w.daemons, {"getStatus"}, FALSE)

checkStoppingComplete(session, w, r) ==
    LET sid == session.sessionId
        status == getStatus(w.daemons, sid)
    IN  IF ~r.statusOk
        THEN Result(w.store, w.ports, w.daemons, {"getStatus"}, TRUE)
        ELSE IF ~status.running
        THEN Result(setActualState(w.store, sid, "stopped", <<>>), w.ports, w.daemons,
                    {"getStatus"}, FALSE)
        ELSE Result(w.store, w.ports, w.daemons, {"getStatus"}, FALSE)

resetToStopped(session, w, r) ==
    LET sid == session.sessionId
        a1 == IF session.streamPort # NullPort
              THEN release(w.ports, session.streamPort) ELSE w.ports
        c1 == IF session.streamPort # NullPort THEN {"release"} ELSE {}
    IN  Result(setActualState(w.store, sid, "stopped",
                   [streamPort |-> NullPort, errorMessage |-> "null"]),
               a1, w.daemons, c1, FALSE)

executeAction(session, action, w, r) ==
    CASE action = "StartDaemon" -> startSession(session, w, r)
      [] action = "StopDaemon" -> stopSession(session, w, r)
      [] action = "WaitForReady" ->
            IF session.actualState = "starting" THEN checkDaemonReady(session, w, r)
            ELSE IF session.actualState = "stopping"
            THEN checkStoppingComplete(session, w, r)
            ELSE IF session.actualState = "running" THEN checkDaemonAlive(session, w, r)
            ELSE Result(w.store, w.ports, w.daemons, {}, FALSE)
      [] action = "ResetToStopped" -> resetToStopped(session, w, r)
      [] action = "NoOp" -> Result(w.store, w.ports, w.daemons, {}, FALSE)

reconcileSession(session, w, r) ==
    executeAction(session, computeRequiredAction(session.desiredState, session.actualState),
                  w, r)

(***************************************************************************)
(* Actions of the browser orchestrator                                     *)
(***************************************************************************)
NoStep == [kind |-> "none"]

\* initializePortAllocator: the allocator is built from the stream ports of the
\* stored sessions
initializePortAllocator(store) ==
    createPortAllocator({store[sid].streamPort : sid \in
                            {x \in DOMAIN store : store[x].streamPort # NullPort}})

Min(a, b) == IF a < b THEN a ELSE b

\* the viewer counter and the browser service at construction
RefInit ==
    /\ subscriberCounts = [sid \in Sessions |-> 0]
    /\ pendingCleanups = [sid \in Sessions |-> NoTimer]
    /\ timers = {}
    /\ timerSeq = 0
    /\ streamSockets = [v \in StreamSockets |-> "none"]
    /\ opened = 0
    /\ browserRequests = [sid \in Sessions |-> [start |-> 0, stop |-> 0]]
    /\ nextStreamPort = BASE_STREAM_PORT + 1
    /\ cancelled = {}

NoRequest == [type |-> "none", received |-> 0]

\* the channel bus with its sockets upgraded and nothing subscribed
BusInit ==
    /\ subscriptions = [ws \in Sockets |-> {}]
    /\ topics = [ws \in Sockets |-> {}]
    /\ closed = [ws \in Sockets |-> FALSE]
    /\ authorizing = [ws \in Sockets |-> [p \in Paths |-> 0]]
    /\ loading = [ws \in Sockets |-> [p \in Paths |-> 0]]
    /\ outbox = [ws \in Sockets |-> <<>>]
    /\ clientMsgs = 0
    /\ published = 0
    /\ snapshotsSent = [ws \in Sockets |-> [p \in Paths |-> 0]]
    /\ lastRequest = [ws \in Sockets |-> [p \in Paths |-> NoRequest]]

\* no second reconcileAll is in progress
OvInit == pendingB = <<>>

(***************************************************************************)
(* Session lifecycle: the tables, the provider and the publisher           *)
(***************************************************************************)

\* the Session rows the model can insert
MaxRows == 1

RowIds == 1 .. MaxRows

Definitions == {"d1", "d2"}

\* the cleanupSession calls
Calls == {"x", "y"}

\* title = null
NullTitle == <<"null">>

NoRow == [status |-> "absent", title |-> NullTitle]

\* dockerId: ""
NoDockerId == <<>>

\* the id the provider gives the container of a session container row
DockerId(sessionId, definition) == <<sessionId, definition>>

NoResources == [browser |-> FALSE, proxy |-> FALSE, network |-> FALSE]

IdleCall == [pc |-> "idle", sessionId |-> 0, title |-> NullTitle, containers |-> {},
             failures |-> {}, late |-> FALSE]

\* no project: nothing in the tables, nothing published, no call in progress
LsInit ==
    /\ sessionRows = [id \in RowIds |-> NoRow]
    /\ sessionContainers = [id \in RowIds |-> {}]
    /\ containerDefinitions = {}
    /\ poolSize = 0
    /\ nextRowId = 1
    /\ dockerContainers = {}
    /\ resources = [id \in RowIds |-> NoResources]
    /\ publishLog = EmptyBag
    /\ background = {}
    /\ cleanups = [call \in Calls |-> IdleCall]
    /\ stoppedBy = [id \in RowIds, definition \in Definitions |-> {}]

\* the proxy has accepted no WebSocket connection yet
PxInit ==
    /\ wsState = "new"
    /\ upstreamWs = "null"
    /\ pendingMessages = <<>>
    /\ sentFrames = 0
    /\ upstreamFrames = <<>>
    /\ downFrames = 0
    /\ clientFrames = <<>>
    /\ flushed = -1

\* the proxy has answered no HTTP request yet
NoExchange == [answered |-> FALSE]

\* TIMING.CONTAINER_MONITOR_INITIAL_RETRY_MS, _MAX_RETRY_MS and _RETRY_MS
CONTAINER_MONITOR_INITIAL_RETRY_MS == 1000
CONTAINER_MONITOR_MAX_RETRY_MS == 60000
CONTAINER_MONITOR_RETRY_MS == 1000

\* startContainerMonitor: setTimeout(() => startContainerMonitor(), 5000)
LEGACY_RETRY_MS == 5000

MonitorKinds == {"container", "legacy", "network"}
MonRowIds == {"r1", "r2"}
NoMonStep == [kind |-> "none"]

\* a monitor has been started and reads the event stream; the rows of two sessions'
\* containers exist
MonInit(kind) ==
    /\ monKind = kind
    /\ monPc = "streaming"
    /\ monAborted = FALSE
    /\ retryDelay = CONTAINER_MONITOR_INITIAL_RETRY_MS
    /\ monFailures = 0
    /\ monRows = [r \in MonRowIds |->
                     IF r = "r1" THEN [sessionId |-> "s1", dockerId |-> "d1", status |-> "starting"]
                     ELSE [sessionId |-> "s2", dockerId |-> "d2", status |-> "starting"]]
    /\ monLast = NoMonStep

\* the items of an array snapshot at a connect
MaxItems == 2

ItemIds == {1, 2}
Items == [id : ItemIds, name : {"a", "b"}]
ArrayChannels == {"sessions", "sessionContainers", "sessionChangedFiles"}

\* an array value
Array(items) == [kind |-> "array", items |-> items]

Snapshots == UNION {[1 .. n -> Items] : n \in 0 .. MaxItems}

\* the client is connected to an array channel and holds the snapshot it was sent
NoDelta == [type |-> "none", applied |-> 0]

ClInit(channel, items) ==
    /\ clientChannel = channel
    /\ clientData = Array(items)
    /\ lastDelta = NoDelta

\* this.eventBuffer.length > 256
EVENT_BUFFER_LIMIT == 256

EventStreams == {"e1", "e2"}
NotConnected == [lastEventId |-> -2, first |-> -2]

\* the ids first .. last, in order
IdRange(first, last) == [i \in 1 .. (last - first + 1) |-> first + i - 1]

\* the buffer of a manager that has emitted n events: the last 256 of the ids 0 .. n - 1
BufferAfter(n) ==
    IdRange(IF n > EVENT_BUFFER_LIMIT THEN n - EVENT_BUFFER_LIMIT ELSE 0, n - 1)

\* a manager that has emitted n events and has no stream connected
AuthInit(n) ==
    /\ eventCounter = n
    /\ eventBuffer = BufferAfter(n)
    /\ subscribers = {}
    /\ streamState = [c \in EventStreams |-> "none"]
    /\ enqueued = [c \in EventStreams |-> <<>>]
    /\ connectedWith = [c \in EventStreams |-> NotConnected]

\* startContainer calls in a run
MaxStarts == 2

\* agent events applied to the projector in a run
MaxEvents == 3

NoContainer == [exists |-> FALSE, started |-> FALSE, connected |-> FALSE, aliases |-> {}]

NoStart == [outcome |-> "none"]

\* the tool call ids of the agent's events
CallIds == {"t1", "t2"}

\* no message id (null, or no entry in the map)
NoId == <<>>

\* the sandbox provider holds no container and no startContainer was called
RtInit ==
    /\ providerContainers = [id \in 1 .. MaxStarts |-> NoContainer]
    /\ runtimeSeq = 0
    /\ lastStart = NoStart

\* new SessionMessagesProjector()
MsgInit ==
    /\ messages = <<>>
    /\ toolCallToMessageId = [callId \in CallIds |-> NoId]
    /\ activeAssistantMessageId = NoId
    /\ messageCounter = 0
    /\ applied = {}
    /\ lastMessages = <<>>

LateInit == RtInit /\ MsgInit

ExtInit ==
    /\ LateInit
    /\ AuthInit(0)
    /\ PxInit
    /\ httpExchange = NoExchange
    /\ MonInit("container")
    /\ ClInit("sessions", <<>>)

\* the history of reconcileAll is not kept
NoLog == [kind |-> "off"]

LogInit == tickLog = NoLog

RecCore ==
    /\ RefInit
    /\ BusInit
    /\ OvInit
    /\ LsInit
    /\ LogInit
    /\ stateStore = [sid \in Sessions |-> NewSession(sid)]
    /\ allocatedPorts = initializePortAllocator([sid \in Sessions |-> NewSession(sid)])
    /\ activeSessions = [sid \in Sessions |-> NoDaemon]
    /\ viewerCount = [sid \in Sessions |-> 0]
    /\ cleanupArmed = [sid \in Sessions |-> FALSE]
    /\ pending = <<>>
    /\ lastStep = NoStep
    /\ startCalls = [sid \in Sessions |-> 0]
    /\ okTicks = [sid \in Sessions |-> -2]
    /\ held = {}

RecInit ==
    /\ RecCore
    /\ ExtInit

\* orchestrator.subscribe: a viewer joins, desired = running
Subscribe(sid) ==
    /\ viewerCount[sid] < MaxViewers
    /\ viewerCount' = [viewerCount EXCEPT ![sid] = @ + 1]
    /\ stateStore' = setDesiredState(stateStore, sid, "running")
    /\ okTicks' = [okTicks EXCEPT ![sid] =
            IF @ = -2 THEN -2
            ELSE IF stateStore[sid].desiredState = "stopped"
                    /\ stateStore[sid].actualState = "stopped" THEN 0 ELSE -1]
    /\ lastStep' = NoStep
    /\ UNCHANGED nonRecVars
    /\ UNCHANGED <<allocatedPorts, activeSessions, cleanupArmed, pending, startCalls>>

\* orchestrator.unsubscribe: the last leave arms the cleanup timer
Unsubscribe(sid) ==
    /\ viewerCount[sid] > 0
    /\ viewerCount' = [viewerCount EXCEPT ![sid] = @ - 1]
    /\ cleanupArmed' = [cleanupArmed EXCEPT ![sid] = @ \/ viewerCount[sid] = 1]
    /\ lastStep' = NoStep
    /\ UNCHANGED nonRecVars
    /\ UNCHANGED <<stateStore, allocatedPorts, activeSessions, pending, startCalls, okTicks>>

\* the cleanupDelayMs timer fires: desired = stopped if the count is still zero
CleanupTimerFires(sid) ==
    /\ cleanupArmed[sid]
    /\ cleanupArmed' = [cleanupArmed EXCEPT ![sid] = FALSE]
    /\ stateStore' = IF viewerCount[sid] = 0
                     THEN setDesiredState(stateStore, sid, "stopped") ELSE stateStore
    /\ okTicks' = [okTicks EXCEPT ![sid] = IF viewerCount[sid] = 0 /\ @ # -2 THEN -1 ELSE @]
    /\ lastStep' = NoStep
    /\ UNCHANGED nonRecVars
    /\ UNCHANGED <<allocatedPorts, activeSessions, viewerCount, pending, startCalls>>

\* the daemon started for a session becomes ready
DaemonReady(sid) ==
    /\ activeSessions[sid].exists
    /\ ~activeSessions[sid].ready
    /\ activeSessions' = [activeSessions EXCEPT ![sid].ready = TRUE]
    /\ lastStep' = NoStep
    /\ UNCHANGED nonRecVars
    /\ UNCHANGED <<stateStore, allocatedPorts, viewerCount, cleanupArmed, pending,
                   startCalls, okTicks>>

\* the daemon of a session fails and is dropped by the daemon manager
DaemonCrash(sid) ==
    /\ activeSessions[sid].exists
    /\ activeSessions' = [activeSessions EXCEPT ![sid] = NoDaemon]
    /\ lastStep' = NoStep
    /\ UNCHANGED nonRecVars
    /\ UNCHANGED <<stateStore, allocatedPorts, viewerCount, cleanupArmed, pending,
                   startCalls, okTicks>>

\* reconcileAll: stateStore.getAllSessions()
TickBegin ==
    /\ pending = <<>>
    /\ pending' = [i \in 1..Len(SessionOrder) |-> stateStore[SessionOrder[i]]]
    /\ tickLog' = IF tickLog = NoLog THEN NoLog
                  ELSE [kind |-> "tick", attempted |-> <<>>, errors |-> <<>>,
                        raised |-> <<>>]
    /\ lastStep' = NoStep
    /\ UNCHANGED <<paVars, refVars, busVars, ovVars, lsVars, extVars>>
    /\ UNCHANGED <<stateStore, allocatedPorts, activeSessions, viewerCount, cleanupArmed,
                   startCalls, okTicks>>

\* whether the reconcile met what the scenario of a successful start asks of
\* the daemon controller: start was called and succeeded, getStatus said ready
StepOk(session, action, res) ==
    /\ session.desiredState = "running"
    /\ ~res.threw
    /\ action = "StartDaemon" => "start" \in res.calls
    /\ action = "WaitForReady" =>
            /\ activeSessions[session.sessionId].exists
            /\ activeSessions[session.sessionId].ready

\* reconcileAll: one iteration of the loop, reconcileSession(session)
\* reconcileAll whose loop ends at the first session that fails
remainingStopsOnFailure(queue, threw) ==
    IF threw THEN <<>> ELSE Tail(queue)

\* reconcileAll: the sessions left for the loop after one reconcileSession, whether or
\* not it threw
remainingSessions(queue, threw) ==
    Tail(queue)

ReconcileStep ==
    /\ pending # <<>>
    /\ \E r \in Replies(computeRequiredAction(Head(pending).desiredState,
                                                Head(pending).actualState),
                          Head(pending), activeSessions[Head(pending).sessionId]) :
         LET session == Head(pending)
             sid == session.sessionId
             action == computeRequiredAction(session.desiredState, session.actualState)
             w == [store |-> stateStore, ports |-> allocatedPorts,
                   daemons |-> activeSessions]
             res == reconcileSession(session, w, r)
         IN  /\ stateStore' = res.store
             /\ allocatedPorts' = res.ports
             /\ activeSessions' = res.daemons
             /\ pending' = remainingSessions(pending, res.threw)
             /\ tickLog' =
                    IF tickLog = NoLog THEN NoLog
                    ELSE LET errors == IF res.threw THEN Append(tickLog.errors, sid)
                                       ELSE tickLog.errors
                         IN  [kind |-> "tick",
                              attempted |-> Append(tickLog.attempted, sid),
                              errors |-> errors,
                              raised |-> IF remainingSessions(pending, res.threw) = <<>>
                                         THEN errors ELSE <<>>]
             /\ lastStep' =
                    IF okTicks[sid] = -2 THEN NoStep
                    ELSE [kind |-> "reconcile", session |-> session, action |-> action,
                          calls |-> res.calls, threw |-> res.threw,
                          status |-> IF "getStatus" \notin res.calls THEN "none"
                                     ELSE IF ~r.statusOk THEN "throw"
                                     ELSE IF ~activeSessions[sid].exists THEN "null"
                                     ELSE IF activeSessions[sid].ready THEN "ready"
                                     ELSE "running",
                          wrote |-> res.store # stateStore,
                          url |-> IF action = "StopDaemon" THEN r.currentUrl ELSE "null",
                          ports |-> allocatedPorts]
             /\ startCalls' = [startCalls EXCEPT ![sid] =
                    IF res.store[sid].retryCount = 0 THEN 0
                    ELSE IF "start" \in res.calls THEN Min(@ + 1, MAX_RETRIES + 1)
                    ELSE @]
             /\ okTicks' = [okTicks EXCEPT ![sid] =
                    IF @ = -2 THEN -2
                    ELSE IF @ \in {-1, 2} THEN -1
                    ELSE IF session.desiredState = "stopped" THEN @
                    ELSE IF StepOk(session, action, res) THEN @ + 1
                    ELSE -1]
             /\ UNCHANGED <<viewerCount, cleanupArmed, paVars, refVars, busVars, ovVars, lsVars,
                            extVars>>

RecNext ==
    \/ \E sid \in Sessions : Subscribe(sid)
    \/ \E sid \in Sessions : Unsubscribe(sid)
    \/ \E sid \in Sessions : CleanupTimerFires(sid)
    \/ \E sid \in Sessions : DaemonReady(sid)
    \/ \E sid \in Sessions : DaemonCrash(sid)
    \/ TickBegin
    \/ ReconcileStep

Init == RecInit

Next == RecNext

Spec == Init /\ [][Next]_vars

(***************************************************************************)
(* The orchestrator with viewers on one session only; the other sessions   *)
(* stay stopped and are reconciled to no effect.                           *)
(***************************************************************************)
Solo == "s1"

SoloInit ==
    /\ RefInit
    /\ BusInit
    /\ OvInit
    /\ ExtInit
    /\ LsInit
    /\ LogInit
    /\ stateStore = [sid \in Sessions |-> NewSession(sid)]
    /\ allocatedPorts = initializePortAllocator([sid \in Sessions |-> NewSession(sid)])
    /\ activeSessions = [sid \in Sessions |-> NoDaemon]
    /\ viewerCount = [sid \in Sessions |-> 0]
    /\ cleanupArmed = [sid \in Sessions |-> FALSE]
    /\ pending = <<>>
    /\ lastStep = NoStep
    /\ startCalls = [sid \in Sessions |-> 0]
    /\ okTicks = [sid \in Sessions |-> IF sid = Solo THEN -1 ELSE -2]
    /\ held = {}

SoloNext ==
    \/ Subscribe(Solo)
    \/ Unsubscribe(Solo)
    \/ CleanupTimerFires(Solo)
    \/ DaemonReady(Solo)
    \/ DaemonCrash(Solo)
    \/ TickBegin
    \/ ReconcileStep

SoloSpec == SoloInit /\ [][SoloNext]_vars

SoloFairSpec == SoloSpec /\ WF_vars(TickBegin) /\ WF_vars(ReconcileStep)

(***************************************************************************)
(* The reconciler with the history of each reconcileAll kept: viewers join *)
(* either session and stay, daemons get ready or die, calls fail.          *)
(***************************************************************************)
TickInit ==
    /\ RefInit
    /\ BusInit
    /\ OvInit
    /\ ExtInit
    /\ LsInit
    /\ tickLog = [kind |-> "tick", attempted |-> <<>>, errors |-> <<>>, raised |-> <<>>]
    /\ stateStore = [sid \in Sessions |-> NewSession(sid)]
    /\ allocatedPorts = initializePortAllocator([sid \in Sessions |-> NewSession(sid)])
    /\ activeSessions = [sid \in Sessions |-> NoDaemon]
    /\ viewerCount = [sid \in Sessions |-> 0]
    /\ cleanupArmed = [sid \in Sessions |-> FALSE]
    /\ pending = <<>>
    /\ lastStep = NoStep
    /\ startCalls = [sid \in Sessions |-> 0]
    /\ okTicks = [sid \in Sessions |-> -2]
    /\ held = {}

TickNext ==
    \/ \E sid \in Sessions : Subscribe(sid)
    \/ \E sid \in Sessions : DaemonReady(sid)
    \/ \E sid \in Sessions : DaemonCrash(sid)
    \/ TickBegin
    \/ ReconcileStep

TickSpec == TickInit /\ [][TickNext]_vars

(***************************************************************************)
(* Two reconcileAll executions in progress at once: the reconciler takes   *)
(* no lock, so a call made while another is awaiting runs alongside it.    *)
(***************************************************************************)
\* the snapshot differs from the stored session in what reconciles write
Stale(session) ==
    [stateStore[session.sessionId] EXCEPT !.desiredState = session.desiredState] # session

\* reconcileAll of the second execution: stateStore.getAllSessions()
TickBeginB ==
    /\ pendingB = <<>>
    /\ pendingB' = [i \in 1..Len(SessionOrder) |-> stateStore[SessionOrder[i]]]
    /\ lastStep' = NoStep
    /\ UNCHANGED <<stateStore, allocatedPorts, activeSessions, viewerCount, cleanupArmed,
                   pending, startCalls, okTicks>>
    /\ UNCHANGED <<paVars, refVars, busVars, logVars, lsVars, extVars>>

\* reconcileAll of the second execution: reconcileSession on its next snapshot
ReconcileStepB ==
    /\ pendingB # <<>>
    /\ \E r \in Replies(computeRequiredAction(Head(pendingB).desiredState,
                                                Head(pendingB).actualState),
                          Head(pendingB), activeSessions[Head(pendingB).sessionId]) :
         LET session == Head(pendingB)
             sid == session.sessionId
             w == [store |-> stateStore, ports |-> allocatedPorts,
                   daemons |-> activeSessions]
             res == reconcileSession(session, w, r)
         IN  /\ stateStore' = res.store
             /\ allocatedPorts' = res.ports
             /\ activeSessions' = res.daemons
             /\ pendingB' = Tail(pendingB)
             /\ lastStep' = NoStep
             /\ startCalls' = [startCalls EXCEPT ![sid] =
                    IF res.store[sid].retryCount = 0 THEN 0
                    ELSE IF "start" \in res.calls THEN Min(@ + 1, MAX_RETRIES + 1)
                    ELSE @]
    /\ UNCHANGED <<viewerCount, cleanupArmed, pending, okTicks>>
    /\ UNCHANGED <<paVars, refVars, busVars, logVars, lsVars, extVars>>

OverlapNext ==
    \/ Subscribe(Solo)
    \/ Unsubscribe(Solo)
    \/ CleanupTimerFires(Solo)
    \/ DaemonReady(Solo)
    \/ DaemonCrash(Solo)
    \/ TickBegin
    \/ ReconcileStep
    \/ TickBeginB
    \/ ReconcileStepB

OverlapSpec == Init /\ [][OverlapNext]_vars

(***************************************************************************)
(* The port allocator on its own: any set of initially loaded ports, then  *)
(* any sequence of allocate, release and reserve calls.                    *)
(***************************************************************************)
PaPorts == 2

PaRange == [start |-> 9300, end |-> 9300 + PaPorts - 1]

\* the ports callers name: the range and a port on either side of it
PaUniverse == (PaRange.start - 1) .. (PaRange.end + 1)

PaInit ==
    /\ RefInit
    /\ BusInit
    /\ OvInit
    /\ ExtInit
    /\ LsInit
    /\ LogInit
    /\ \E initialPorts \in SUBSET PaUniverse :
          /\ allocatedPorts = createPortAllocator(initialPorts)
          /\ held = initialPorts
    /\ stateStore = [sid \in Sessions |-> NewSession(sid)]
    /\ activeSessions = [sid \in Sessions |-> NoDaemon]
    /\ viewerCount = [sid \in Sessions |-> 0]
    /\ cleanupArmed = [sid \in Sessions |-> FALSE]
    /\ pending = <<>>
    /\ lastStep = NoStep
    /\ startCalls = [sid \in Sessions |-> 0]
    /\ okTicks = [sid \in Sessions |-> -2]

\* history: the call before, and the one before that
Earlier(step) ==
    IF step.kind = "none" THEN step
    ELSE [step EXCEPT !.prev = IF @.kind = "none" THEN @ ELSE [@ EXCEPT !.prev = NoStep]]

paFrame == <<stateStore, activeSessions, viewerCount, cleanupArmed, pending, startCalls,
             okTicks, refVars, busVars, ovVars, logVars, lsVars, extVars>>

PaAllocate ==
    /\ IF allocateThrows(PaRange, allocatedPorts)
       THEN /\ lastStep' = [kind |-> "allocate", threw |-> TRUE, port |-> NullPort,
                            before |-> held, set |-> allocatedPorts,
                    prev |-> Earlier(lastStep)]
            /\ UNCHANGED <<allocatedPorts, held>>
       ELSE /\ allocatedPorts' = allocate(PaRange, allocatedPorts).allocated
            /\ held' = held \cup {allocate(PaRange, allocatedPorts).port}
            /\ lastStep' = [kind |-> "allocate", threw |-> FALSE,
                            port |-> allocate(PaRange, allocatedPorts).port,
                            before |-> held, set |-> allocatedPorts,
                    prev |-> Earlier(lastStep)]
    /\ UNCHANGED paFrame

PaRelease(port) ==
    /\ allocatedPorts' = release(allocatedPorts, port)
    /\ held' = held \ {port}
    /\ lastStep' = [kind |-> "release", threw |-> FALSE, port |-> port,
                    before |-> held, set |-> allocatedPorts,
                    prev |-> Earlier(lastStep)]
    /\ UNCHANGED paFrame

PaReserve(port) ==
    /\ allocatedPorts' = reserve(allocatedPorts, port)
    /\ held' = held \cup {port}
    /\ lastStep' = [kind |-> "reserve", threw |-> FALSE, port |-> port,
                    before |-> held, set |-> allocatedPorts,
                    prev |-> Earlier(lastStep)]
    /\ UNCHANGED paFrame

PaNext ==
    \/ PaAllocate
    \/ \E port \in PaUniverse : PaRelease(port)
    \/ \E port \in PaUniverse : PaReserve(port)

PaSpec == PaInit /\ [][PaNext]_vars

(***************************************************************************)
(* The viewer reference counter of the browser stream handler, with the    *)
(* requests it sends to the browser service.                               *)
(***************************************************************************)
\* the counter's state as one value
RefState ==
    [subscriberCounts |-> subscriberCounts, pendingCleanups |-> pendingCleanups,
     timers |-> timers, browserRequests |-> browserRequests]

\* ensureBrowserSession: a start request leaves for the browser service
ensureBrowserSession(requests, sid) ==
    [requests EXCEPT ![sid].start = @ + 1]

\* cleanupBrowserSession: a stop request leaves for the browser service
cleanupBrowserSession(requests, sid) ==
    [requests EXCEPT ![sid].stop = @ + 1]

\* subscribeToBrowserSession that forgets the pending cleanup but leaves its timeout set
subscribeKeepsTimeout(ref, sid) ==
    LET count == ref.subscriberCounts[sid]
    IN  [ref EXCEPT
            !.pendingCleanups[sid] = NoTimer,
            !.subscriberCounts[sid] = count + 1,
            !.browserRequests = IF count = 0 THEN ensureBrowserSession(@, sid) ELSE @]

subscribeToBrowserSession(ref, sid) ==
    LET pendingCleanup == ref.pendingCleanups[sid]
        count == ref.subscriberCounts[sid]
    IN  [ref EXCEPT
            !.timers = IF pendingCleanup # NoTimer
                       THEN @ \ {[sessionId |-> sid, handle |-> pendingCleanup]} ELSE @,
            !.pendingCleanups[sid] = NoTimer,
            !.subscriberCounts[sid] = count + 1,
            !.browserRequests = IF count = 0 THEN ensureBrowserSession(@, sid) ELSE @]

\* unsubscribeFromBrowserSession without its guard on a count of zero
unsubscribeUnguarded(ref, sid, handle) ==
    LET newCount == ref.subscriberCounts[sid] - 1
    IN  IF newCount = 0
        THEN [ref EXCEPT
                !.subscriberCounts[sid] = 0,
                !.timers = @ \cup {[sessionId |-> sid, handle |-> handle]},
                !.pendingCleanups[sid] = handle]
        ELSE [ref EXCEPT !.subscriberCounts[sid] = newCount]

\* handle is the handle setTimeout returns when the call sets a timeout
unsubscribeFromBrowserSession(ref, sid, handle) ==
    LET count == ref.subscriberCounts[sid]
        newCount == count - 1
    IN  IF count <= 0 THEN ref
        ELSE IF newCount = 0
        THEN [ref EXCEPT
                !.subscriberCounts[sid] = 0,
                !.timers = @ \cup {[sessionId |-> sid, handle |-> handle]},
                !.pendingCleanups[sid] = handle]
        ELSE [ref EXCEPT !.subscriberCounts[sid] = newCount]

\* the callback of the cleanup timeout
cleanupTimeout(ref, timer) ==
    [ref EXCEPT
        !.timers = @ \ {timer},
        !.pendingCleanups[timer.sessionId] = NoTimer,
        !.browserRequests = cleanupBrowserSession(@, timer.sessionId)]

RefWrite(ref) ==
    /\ subscriberCounts' = ref.subscriberCounts
    /\ pendingCleanups' = ref.pendingCleanups
    /\ timers' = ref.timers
    /\ browserRequests' = ref.browserRequests

refFrame == <<stateStore, allocatedPorts, viewerCount, cleanupArmed, pending, startCalls,
              okTicks, paVars, busVars, ovVars, logVars, lsVars, extVars>>

\* browserStreamHandler.open
StreamOpen(v, sid) ==
    /\ streamSockets[v] = "none"
    /\ opened < MaxOpens
    /\ streamSockets' = [streamSockets EXCEPT ![v] = sid]
    /\ opened' = opened + 1
    /\ RefWrite(subscribeToBrowserSession(RefState, sid))
    /\ cancelled' = IF pendingCleanups[sid] # NoTimer
                    THEN cancelled \cup {[sessionId |-> sid,
                                          handle |-> pendingCleanups[sid]]}
                    ELSE cancelled
    /\ lastStep' = [kind |-> "subscribe", sessionId |-> sid,
                    count |-> subscriberCounts[sid], handle |-> pendingCleanups[sid]]
    /\ UNCHANGED <<timerSeq, nextStreamPort, activeSessions>>
    /\ UNCHANGED refFrame

\* browserStreamHandler.close
StreamClose(v) ==
    /\ streamSockets[v] # "none"
    /\ LET sid == streamSockets[v]
           arms == subscriberCounts[sid] = 1
       IN  /\ RefWrite(unsubscribeFromBrowserSession(RefState, sid, timerSeq + 1))
           /\ timerSeq' = IF arms THEN timerSeq + 1 ELSE timerSeq
           /\ lastStep' = [kind |-> "unsubscribe", sessionId |-> sid,
                           count |-> subscriberCounts[sid],
                           handle |-> IF arms THEN timerSeq + 1 ELSE NoTimer]
    /\ streamSockets' = [streamSockets EXCEPT ![v] = "none"]
    /\ UNCHANGED <<opened, nextStreamPort, activeSessions, cancelled>>
    /\ UNCHANGED refFrame

\* CLEANUP_DELAY_MS after it was set, a timeout that is still set runs its callback
CleanupTimeoutFires(timer) ==
    /\ timer \in timers
    /\ RefWrite(cleanupTimeout(RefState, timer))
    /\ lastStep' = [kind |-> "cleanup", sessionId |-> timer.sessionId,
                    count |-> subscriberCounts[timer.sessionId],
                    handle |-> timer.handle]
    /\ UNCHANGED <<timerSeq, streamSockets, opened, nextStreamPort, activeSessions,
                   cancelled>>
    /\ UNCHANGED refFrame

\* the browser service handles POST /sessions/:id
BrowserStartArrives(sid) ==
    /\ browserRequests[sid].start > 0
    /\ browserRequests' = [browserRequests EXCEPT ![sid].start = @ - 1]
    /\ activeSessions' = startSessionDaemon(activeSessions, sid, nextStreamPort)
    /\ nextStreamPort' = IF activeSessions[sid].exists
                         THEN nextStreamPort ELSE nextStreamPort + 1
    /\ lastStep' = NoStep
    /\ UNCHANGED <<subscriberCounts, pendingCleanups, timers, timerSeq, streamSockets,
                   opened, cancelled>>
    /\ UNCHANGED refFrame

\* the browser service handles DELETE /sessions/:id
BrowserStopArrives(sid) ==
    /\ browserRequests[sid].stop > 0
    /\ browserRequests' = [browserRequests EXCEPT ![sid].stop = @ - 1]
    /\ activeSessions' = stopSessionDaemon(activeSessions, sid)
    /\ lastStep' = NoStep
    /\ UNCHANGED <<subscriberCounts, pendingCleanups, timers, timerSeq, streamSockets,
                   opened, nextStreamPort, cancelled>>
    /\ UNCHANGED refFrame

\* a request to the browser service fails on the way; the caller logs a warning
BrowserRequestFails(sid) ==
    /\ \E kind \in {"start", "stop"} :
          /\ browserRequests[sid][kind] > 0
          /\ browserRequests' = [browserRequests EXCEPT ![sid][kind] = @ - 1]
    /\ lastStep' = NoStep
    /\ UNCHANGED <<subscriberCounts, pendingCleanups, timers, timerSeq, streamSockets,
                   opened, nextStreamPort, cancelled, activeSessions>>
    /\ UNCHANGED refFrame

RefNext ==
    \/ \E v \in StreamSockets, sid \in Sessions : StreamOpen(v, sid)
    \/ \E v \in StreamSockets : StreamClose(v)
    \/ \E sid \in Sessions, handle \in 1 .. MaxOpens :
          CleanupTimeoutFires([sessionId |-> sid, handle |-> handle])
    \/ \E sid \in Sessions : BrowserStartArrives(sid)
    \/ \E sid \in Sessions : BrowserStopArrives(sid)
    \/ \E sid \in Sessions : BrowserRequestFails(sid)
    \/ \E sid \in Sessions : DaemonReady(sid)
    \/ \E sid \in Sessions : DaemonCrash(sid)

RefSpec == Init /\ [][RefNext]_vars

\* unsubscribeFromBrowserSession called for a session nobody is counted for
UnsubscribeAtZero(sid) ==
    /\ subscriberCounts[sid] = 0
    /\ RefWrite(unsubscribeFromBrowserSession(RefState, sid, timerSeq + 1))
    /\ lastStep' = [kind |-> "unsubscribe", sessionId |-> sid,
                    count |-> subscriberCounts[sid], handle |-> NoTimer]
    /\ UNCHANGED <<timerSeq, streamSockets, opened, nextStreamPort, activeSessions,
                   cancelled>>
    /\ UNCHANGED refFrame

\* the viewer counter under any calls of its two functions
CounterNext ==
    \/ RefNext
    \/ \E sid \in Sessions : UnsubscribeAtZero(sid)

CounterSpec == Init /\ [][CounterNext]_vars

\* the viewer counter and a browser service that answers every request, with
\* daemons that do not die
ViewerNext ==
    \/ \E v \in StreamSockets, sid \in Sessions : StreamOpen(v, sid)
    \/ \E v \in StreamSockets : StreamClose(v)
    \/ \E sid \in Sessions, handle \in 1 .. MaxOpens :
          CleanupTimeoutFires([sessionId |-> sid, handle |-> handle])
    \/ \E sid \in Sessions : BrowserStartArrives(sid)
    \/ \E sid \in Sessions : BrowserStopArrives(sid)
    \/ \E sid \in Sessions : DaemonReady(sid)

ViewerSpec == Init /\ [][ViewerNext]_vars

(***************************************************************************)
(* The reconciler and the viewer counter on one daemon manager: a browser  *)
(* stream socket makes the browser service start the daemon of the session *)
(* on a port of the manager's own counter, and the reconciler starts the   *)
(* same session on the port it allocated.                                  *)
(***************************************************************************)
SharedNext ==
    \/ SoloNext
    \/ \E v \in StreamSockets : StreamOpen(v, Solo)
    \/ BrowserStartArrives(Solo)

SharedSpec == SoloInit /\ [][SharedNext]_vars

(***************************************************************************)
(* The multiplayer channel bus: the WebSocket handler of one server, its   *)
(* channels' hooks, and the publisher's fan-out.                           *)
(***************************************************************************)
\* findChannelMatch: the path matches a channel that has handlers
findChannelMatch(channel) == channel # "unknown"

\* the channel's handlers have an authorize hook
HasAuthorize(channel) == channel = "guarded"

\* the channel's handlers have an onEvent handler
HasOnEvent(channel) == channel = "guarded"

\* an error reported to the socket as if it were the snapshot
ErrorAsSnapshot(channel, error) == [type |-> "snapshot", channel |-> channel, data |-> error]

ErrorMessage(channel, error) == [type |-> "error", channel |-> channel, data |-> error]

\* sendMessage: ws.send appends to what the socket receives; a closed socket receives nothing
sendMessage(box, ws, message) ==
    IF closed[ws] THEN box ELSE [box EXCEPT ![ws] = Append(@, message)]

busFrame == <<stateStore, allocatedPorts, activeSessions, viewerCount, cleanupArmed,
              pending, startCalls, okTicks, paVars, refVars, ovVars, logVars, lsVars,
              extVars>>

\* handleSubscribe from the loader call on: the subscription is recorded, the socket joins
\* the topic, and the snapshot loader is awaited
RecordAndLoad(ws, channel) ==
    /\ subscriptions' = [subscriptions EXCEPT ![ws] = @ \cup {channel}]
    /\ topics' = [topics EXCEPT ![ws] = IF closed[ws] THEN @ ELSE @ \cup {channel}]
    /\ loading' = [loading EXCEPT ![ws][channel] = @ + 1]

\* message "subscribe": handleSubscribe up to its first await
SubscribeMessage(ws, channel) ==
    /\ ~closed[ws]
    /\ clientMsgs < MaxClientMsgs
    /\ clientMsgs' = clientMsgs + 1
    /\ IF ~findChannelMatch(channel)
       THEN /\ outbox' = sendMessage(outbox, ws, ErrorMessage(channel, "Unknown channel"))
            /\ UNCHANGED <<subscriptions, topics, authorizing, loading>>
       ELSE IF HasAuthorize(channel)
       THEN /\ authorizing' = [authorizing EXCEPT ![ws][channel] = @ + 1]
            /\ UNCHANGED <<subscriptions, topics, loading, outbox>>
       ELSE /\ RecordAndLoad(ws, channel)
            /\ UNCHANGED <<authorizing, outbox>>
    /\ UNCHANGED <<closed, published>>
    /\ lastStep' = NoStep
    /\ lastRequest' = [lastRequest EXCEPT ![ws][channel] =
                          [type |-> "subscribe", received |-> 0]]
    /\ UNCHANGED <<snapshotsSent, busFrame>>

notAuthorizedNever(authorized) == FALSE

\* if (!authorized)
notAuthorized(authorized) == authorized = "deny"

\* handleSubscribe resumes after the authorize hook: denied, allowed, or the hook threw
AuthorizeReturns(ws, channel, authorized) ==
    /\ authorizing[ws][channel] > 0
    /\ authorizing' = [authorizing EXCEPT ![ws][channel] = @ - 1]
    /\ IF notAuthorized(authorized)
       THEN /\ outbox' = sendMessage(outbox, ws, ErrorMessage(channel, "Unauthorized"))
            /\ UNCHANGED <<subscriptions, topics, loading>>
       ELSE IF authorized = "throw"
       THEN UNCHANGED <<subscriptions, topics, loading, outbox>>
       ELSE /\ RecordAndLoad(ws, channel)
            /\ UNCHANGED outbox
    /\ UNCHANGED <<closed, clientMsgs, published>>
    /\ lastStep' =
           IF authorized = "deny"
           THEN [kind |-> "deny", ws |-> ws, channel |-> channel, open |-> ~closed[ws],
                 subscriptions |-> subscriptions[ws], topics |-> topics[ws],
                 loading |-> loading[ws][channel],
                 sent |-> SubSeq(outbox'[ws], Len(outbox[ws]) + 1, Len(outbox'[ws]))]
           ELSE NoStep
    /\ UNCHANGED <<snapshotsSent, lastRequest, busFrame>>

\* handleSubscribe resumes after the snapshot loader: the snapshot, or the loader threw
SnapshotReturns(ws, channel, loaded) ==
    /\ loading[ws][channel] > 0
    /\ loading' = [loading EXCEPT ![ws][channel] = @ - 1]
    /\ outbox' = sendMessage(outbox, ws,
                    IF loaded
                    THEN [type |-> "snapshot", channel |-> channel, data |-> "snapshot"]
                    ELSE ErrorMessage(channel, "Failed to get snapshot"))
    /\ UNCHANGED <<subscriptions, topics, closed, authorizing, clientMsgs, published>>
    /\ lastStep' = [kind |-> "snapshot", ws |-> ws, channel |-> channel,
                    loaded |-> loaded, open |-> ~closed[ws],
                    subscribed |-> channel \in subscriptions[ws],
                    joined |-> channel \in topics[ws],
                    sent |-> SubSeq(outbox'[ws], Len(outbox[ws]) + 1, Len(outbox'[ws]))]
    /\ snapshotsSent' =
           IF loaded /\ ~closed[ws] /\ channel \in subscriptions[ws]
           THEN [snapshotsSent EXCEPT ![ws][channel] = @ + 1]
           ELSE snapshotsSent
    /\ UNCHANGED lastRequest
    /\ UNCHANGED busFrame

\* message "unsubscribe": handleUnsubscribe
UnsubscribeMessage(ws, channel) ==
    /\ ~closed[ws]
    /\ clientMsgs < MaxClientMsgs
    /\ clientMsgs' = clientMsgs + 1
    /\ subscriptions' = [subscriptions EXCEPT ![ws] = @ \ {channel}]
    /\ topics' = [topics EXCEPT ![ws] = @ \ {channel}]
    /\ UNCHANGED <<closed, authorizing, loading, outbox, published>>
    /\ lastStep' = NoStep
    /\ snapshotsSent' = [snapshotsSent EXCEPT ![ws][channel] = 0]
    /\ lastRequest' = [lastRequest EXCEPT ![ws][channel] =
                          [type |-> "unsubscribe", received |-> Len(outbox[ws])]]
    /\ UNCHANGED busFrame

\* message "event": handleEvent; onEvent returns or throws
EventMessage(ws, channel, handled) ==
    /\ ~closed[ws]
    /\ clientMsgs < MaxClientMsgs
    /\ clientMsgs' = clientMsgs + 1
    /\ LET invoked == /\ findChannelMatch(channel)
                      /\ HasOnEvent(channel)
                      /\ channel \in subscriptions[ws]
       IN  /\ outbox' =
                IF ~findChannelMatch(channel) \/ ~HasOnEvent(channel) THEN outbox
                ELSE IF channel \notin subscriptions[ws]
                THEN sendMessage(outbox, ws, ErrorMessage(channel, "Not subscribed"))
                ELSE IF handled THEN outbox
                ELSE sendMessage(outbox, ws, ErrorMessage(channel, "Event handling failed"))
           /\ handled \/ invoked
           /\ lastStep' = [kind |-> "event", ws |-> ws, channel |-> channel,
                           subscribed |-> channel \in subscriptions[ws],
                           invoked |-> invoked,
                           sent |-> SubSeq(outbox'[ws], Len(outbox[ws]) + 1,
                                           Len(outbox'[ws]))]
    /\ UNCHANGED <<subscriptions, topics, closed, authorizing, loading, published>>
    /\ UNCHANGED <<snapshotsSent, lastRequest, busFrame>>

\* message "ping"
PingMessage(ws) ==
    /\ ~closed[ws]
    /\ clientMsgs < MaxClientMsgs
    /\ clientMsgs' = clientMsgs + 1
    /\ outbox' = sendMessage(outbox, ws, [type |-> "pong", channel |-> "none", data |-> "none"])
    /\ UNCHANGED <<subscriptions, topics, closed, authorizing, loading, published>>
    /\ lastStep' = NoStep
    /\ UNCHANGED <<snapshotsSent, lastRequest, busFrame>>

\* the channel callbacks websocketHandler.close invokes for the paths the socket leaves:
\* ChannelHandlers has authorize, getSnapshot and onEvent, and close calls none of them
closeCallbacks(channels) == {}

\* websocketHandler.close
SocketClose(ws) ==
    /\ ~closed[ws]
    /\ closed' = [closed EXCEPT ![ws] = TRUE]
    /\ topics' = [topics EXCEPT ![ws] = {}]
    /\ subscriptions' = [subscriptions EXCEPT ![ws] = {}]
    /\ UNCHANGED <<authorizing, loading, outbox, clientMsgs, published>>
    /\ lastStep' = [kind |-> "close", ws |-> ws, subscriptions |-> subscriptions[ws],
                    called |-> closeCallbacks(subscriptions[ws])]
    /\ snapshotsSent' = [snapshotsSent EXCEPT ![ws] = [p \in Paths |-> 0]]
    /\ UNCHANGED lastRequest
    /\ UNCHANGED busFrame

\* publisher.publishDelta: the delta goes to every socket subscribed to the path
publishDelta(channel) ==
    /\ findChannelMatch(channel)
    /\ published < MaxDeltas
    /\ published' = published + 1
    /\ outbox' = [ws \in Sockets |->
                    IF channel \in topics[ws] /\ ~closed[ws]
                    THEN Append(outbox[ws], [type |-> "delta", channel |-> channel,
                                             data |-> published + 1])
                    ELSE outbox[ws]]
    /\ UNCHANGED <<subscriptions, topics, closed, authorizing, loading, clientMsgs>>
    /\ lastStep' = NoStep
    /\ UNCHANGED <<snapshotsSent, lastRequest, busFrame>>

BusNext ==
    \/ \E ws \in Sockets, channel \in Paths : SubscribeMessage(ws, channel)
    \/ \E ws \in Sockets, channel \in Paths, authorized \in {"allow", "deny", "throw"} :
          AuthorizeReturns(ws, channel, authorized)
    \/ \E ws \in Sockets, channel \in Paths, loaded \in BOOLEAN :
          SnapshotReturns(ws, channel, loaded)
    \/ \E ws \in Sockets, channel \in Paths : UnsubscribeMessage(ws, channel)
    \/ \E ws \in Sockets, channel \in Paths, handled \in BOOLEAN :
          EventMessage(ws, channel, handled)
    \/ \E ws \in Sockets : PingMessage(ws)
    \/ \E ws \in Sockets : SocketClose(ws)
    \/ \E channel \in Paths : publishDelta(channel)

BusSpec == Init /\ [][BusNext]_vars

(***************************************************************************)
(* Properties of the browser reconciler                                    *)
(***************************************************************************)

Reconciled == lastStep.kind = "reconcile"

\* C4: with desired = running and a start that always fails, the session ends
\* in actual = error with retryCount = maxRetries and an error message.
C4_StartFailuresEndInError ==
    ([]~activeSessions[Solo].exists /\ <>[](stateStore[Solo].desiredState = "running"))
        => <>(/\ stateStore[Solo].actualState = "error"
              /\ stateStore[Solo].retryCount = MAX_RETRIES
              /\ stateStore[Solo].errorMessage # "null")

\* C5: the start calls made for a session since its retry count was last reset
\* never exceed maxRetries, and a reconcile that finds retryCount at maxRetries
\* does not call start.
C5_StartCallsCapped ==
    /\ \A sid \in Sessions : startCalls[sid] <= MAX_RETRIES
    /\ Reconciled /\ lastStep.session.retryCount >= MAX_RETRIES
            => "start" \notin lastStep.calls

\* a reconcile chose StartDaemon for a session whose retries are used up
C5_Witness ==
    /\ Reconciled
    /\ lastStep.action = "StartDaemon"
    /\ lastStep.session.retryCount = MAX_RETRIES
    /\ startCalls[lastStep.session.sessionId] = MAX_RETRIES

\* C6: a reconcile of a session with desired = running and actual starting or
\* running, to which getStatus answers null, sets actual = stopped.
C6_NullStatusStops ==
    ( /\ Reconciled
      /\ lastStep.session.desiredState = "running"
      /\ lastStep.session.actualState \in {"starting", "running"}
      /\ lastStep.status = "null" )
        => stateStore[lastStep.session.sessionId].actualState = "stopped"

SameDesiredActual(session) ==
    /\ session.desiredState = session.actualState
    /\ session.errorMessage = "null"

\* C7 as stated: a reconcile of a session whose desired state equals its actual
\* state makes no changing daemon call, no allocate or release, and no write.
C7_NoActions ==
    (Reconciled /\ SameDesiredActual(lastStep.session))
        => /\ lastStep.calls \subseteq {"getStatus", "getCurrentUrl"}
           /\ ~lastStep.wrote

\* C7 amended: such a reconcile makes no call for stopped/stopped and only
\* getStatus for running/running; it writes only actual = stopped, and only when
\* getStatus reports no running daemon.
C7_NoActionsButCrashDetection ==
    (Reconciled /\ SameDesiredActual(lastStep.session))
        => /\ lastStep.calls \subseteq {"getStatus"}
           /\ lastStep.session.actualState = "stopped"
                => lastStep.calls = {} /\ ~lastStep.wrote
           /\ lastStep.wrote
                => /\ lastStep.status = "null"
                   /\ [stateStore[lastStep.session.sessionId]
                         EXCEPT !.desiredState = lastStep.session.desiredState]
                        = [lastStep.session EXCEPT !.actualState = "stopped"]

\* running/running has been reconciled with the daemon alive, to no effect
C7_Witness ==
    /\ Reconciled
    /\ lastStep.session.desiredState = "running"
    /\ lastStep.session.actualState = "running"
    /\ lastStep.status = "ready"
    /\ ~lastStep.wrote

NoCallThrew == Reconciled => ~lastStep.threw

\* C9: once desired is stopped with no viewer left, fair reconcile ticks bring
\* the session to actual = stopped with no stream port and the port released
\* (unless a viewer subscribes again); no daemon call fails.
C9_StopReleasesPort ==
    []NoCallThrew
        => ((stateStore[Solo].desiredState = "stopped" /\ viewerCount[Solo] = 0)
               ~> \/ stateStore[Solo].desiredState = "running"
                  \/ /\ stateStore[Solo].actualState = "stopped"
                     /\ stateStore[Solo].streamPort = NullPort
                     /\ allocatedPorts = {})

StopStep == Reconciled /\ lastStep.action = "StopDaemon" /\ lastStep.url # "throw"

\* C32: a StopDaemon step whose controller reported a current URL stores that URL
\* as lastUrl exactly when it is neither null nor about:blank and asks the
\* controller to stop; when the stop is confirmed the session is stopped with
\* streamPort null, errorMessage null, retryCount 0 and its port released; when
\* the stop call fails the session is left in stopping with its streamPort kept,
\* the allocator untouched and no release made.
C32_StopDaemonOrder ==
    StopStep =>
        LET before == lastStep.session
            after == stateStore[before.sessionId]
        IN  /\ after.lastUrl = IF lastStep.url \notin {"null", "about:blank"}
                               THEN lastStep.url ELSE before.lastUrl
            /\ "stop" \in lastStep.calls
            /\ ~lastStep.threw =>
                   /\ after.actualState = "stopped"
                   /\ after.streamPort = NullPort
                   /\ after.errorMessage = "null"
                   /\ after.retryCount = 0
                   /\ allocatedPorts = lastStep.ports \ {before.streamPort}
            /\ lastStep.threw =>
                   /\ after.actualState = "stopping"
                   /\ after.streamPort = before.streamPort
                   /\ after.retryCount = before.retryCount
                   /\ allocatedPorts = lastStep.ports
                   /\ "release" \notin lastStep.calls

\* the controller reported a page URL and then failed the stop: the URL is
\* stored and the session waits in stopping with its port still allocated
C32_Witness ==
    /\ StopStep
    /\ lastStep.threw
    /\ lastStep.url \notin {"null", "about:blank"}
    /\ lastStep.session.lastUrl # lastStep.url
    /\ stateStore[Solo].actualState = "stopping"
    /\ stateStore[Solo].streamPort \in allocatedPorts

\* C33: every port the allocator holds is the streamPort of some session, also
\* when the daemon of a session reports another port than the one the reconciler
\* allocated for it.
C33_NoPortLeak ==
    \A port \in allocatedPorts : \E sid \in Sessions : stateStore[sid].streamPort = port

(***************************************************************************)
(* Properties of the port allocator                                        *)
(***************************************************************************)

\* C2: allocate never returns a port that has a holder (loaded at construction,
\* reserved, or allocated and not released since), and every port it returns
\* lies in the configured range.
C2_AllocateReturnsFreePortInRange ==
    (lastStep.kind = "allocate" /\ ~lastStep.threw)
        => /\ lastStep.port \notin lastStep.before
           /\ lastStep.port \in RangePorts(PaRange)

\* allocate passed over a held port of the range and returned a later one
C2_Witness ==
    /\ lastStep.kind = "allocate"
    /\ ~lastStep.threw
    /\ PaRange.start \in lastStep.before
    /\ lastStep.port > PaRange.start

(***************************************************************************)
(* Properties of the viewer reference counter                              *)
(***************************************************************************)
\* C10: the stop armed by the last unsubscribe of a session fires only if the
\* subscriber count is still zero when the delay elapses: a subscribe that finds the
\* cleanup pending clears its timeout, a cleared timeout is no longer set, and the
\* cleanup callback only ever runs for a timeout no subscribe cleared, with no subscriber.
C10_ClearedCleanupNeverStops ==
    /\ timers \cap cancelled = {}
    /\ lastStep.kind = "cleanup" =>
          /\ lastStep.count = 0
          /\ [sessionId |-> lastStep.sessionId, handle |-> lastStep.handle] \notin cancelled

\* a cleanup ran for a session after a subscribe had cleared an earlier cleanup of it
C10_Witness ==
    /\ lastStep.kind = "cleanup"
    /\ \E timer \in cancelled : /\ timer.sessionId = lastStep.sessionId
                                /\ timer.handle < lastStep.handle
    /\ subscriberCounts[lastStep.sessionId] = 0

ReceivedFor(ws, channel, from) ==
    {i \in (from + 1) .. Len(outbox[ws]) :
        /\ outbox[ws][i].channel = channel
        /\ outbox[ws][i].type \in {"snapshot", "delta"}}

\* C34: once the last subscribe or unsubscribe message a socket sent for a path is
\* an unsubscribe, the socket is not subscribed to the path and has received no
\* snapshot and no delta for it since the unsubscribe was handled, also when the
\* authorize hook or the loader of an earlier subscribe was pending at that moment.
C34_UnsubscribeWins ==
    \A ws \in Sockets, channel \in Paths :
        lastRequest[ws][channel].type = "unsubscribe" =>
            /\ channel \notin subscriptions[ws]
            /\ channel \notin topics[ws]
            /\ ReceivedFor(ws, channel, lastRequest[ws][channel].received) = {}

\* C38: when the loader of an authorized subscribe throws, the socket is sent one
\* error message for the channel and no snapshot, and the throw leaves the
\* subscription and the topic as they were: a socket still subscribed stays so.
C38_LoaderFailureKeepsSubscription ==
    (lastStep.kind = "snapshot" /\ ~lastStep.loaded) =>
        /\ lastStep.sent =
               IF lastStep.open
               THEN <<[type |-> "error", channel |-> lastStep.channel,
                       data |-> "Failed to get snapshot"]>>
               ELSE <<>>
        /\ (lastStep.channel \in subscriptions[lastStep.ws]) = lastStep.subscribed
        /\ (lastStep.channel \in topics[lastStep.ws]) = lastStep.joined

\* the loader of a subscribe to the guarded channel threw: the socket got the error
\* and is still subscribed, so its events are accepted and deltas reach it
C38_Witness ==
    /\ lastStep.kind = "snapshot"
    /\ ~lastStep.loaded
    /\ lastStep.channel = "guarded"
    /\ lastStep.open
    /\ lastStep.channel \in subscriptions[lastStep.ws]
    /\ lastStep.channel \in topics[lastStep.ws]
    /\ Len(outbox[lastStep.ws]) = 1

RequestsInFlight(sid) == browserRequests[sid].start + browserRequests[sid].stop

\* C35: a session with a subscriber and no start or stop request on its way to the
\* browser service has its browser daemon: the stop of an expired cleanup timeout
\* does not take effect after the start sent for a later subscriber.
C35_SubscribedMeansRunning ==
    \A sid \in Sessions :
        (subscriberCounts[sid] > 0 /\ RequestsInFlight(sid) = 0)
            => activeSessions[sid].exists

TimersOf(timerSet, sid) == {timer \in timerSet : timer.sessionId = sid}

\* C36: in every step of the viewer counter and for every session, the count is
\* not negative, a cleanup timeout is pending only at a count of zero, at most one
\* timeout is set, a browser start is requested only when the count goes from
\* zero to one, and an unsubscribe at a count of zero changes nothing.
C36_CounterInvariants ==
    [][\A sid \in Sessions :
          /\ subscriberCounts'[sid] >= 0
          /\ pendingCleanups'[sid] # NoTimer => subscriberCounts'[sid] = 0
          /\ Cardinality(TimersOf(timers', sid)) <= 1
          /\ TimersOf(timers', sid) =
                 IF pendingCleanups'[sid] = NoTimer THEN {}
                 ELSE {[sessionId |-> sid, handle |-> pendingCleanups'[sid]]}
          /\ browserRequests'[sid].start > browserRequests[sid].start
                 => subscriberCounts[sid] = 0 /\ subscriberCounts'[sid] = 1
          /\ (/\ lastStep'.kind = "unsubscribe"
              /\ lastStep'.sessionId = sid
              /\ subscriberCounts[sid] = 0)
                 => UNCHANGED <<subscriberCounts, pendingCleanups, timers,
                                browserRequests>>]_vars

\* unsubscribe was called at a count of zero while the cleanup timeout of the
\* session was pending
C36_Witness ==
    /\ lastStep.kind = "unsubscribe"
    /\ lastStep.count = 0
    /\ pendingCleanups[lastStep.sessionId] # NoTimer
    /\ TimersOf(timers, lastStep.sessionId) # {}
    /\ browserRequests[lastStep.sessionId].start > 0

(***************************************************************************)
(* Properties of the channel bus                                           *)
(***************************************************************************)
\* C3: for every socket and every path, each delta the socket receives for the path
\* comes after a snapshot message for that path, also when the delta is published
\* while the snapshot loader of the subscribe is still running.
C3_SnapshotPrecedesDeltas ==
    \A ws \in Sockets : \A i \in DOMAIN outbox[ws] :
        outbox[ws][i].type = "delta" =>
            \E j \in 1 .. (i - 1) :
                /\ outbox[ws][j].type = "snapshot"
                /\ outbox[ws][j].channel = outbox[ws][i].channel

\* C23: when a socket closes, its subscriptions and topics are removed for all paths,
\* and for each path it was subscribed to the channel's unsubscribe hook is called, so
\* that a reference-counted channel releases its viewer.
C23_CloseReleasesSubscriptions ==
    lastStep.kind = "close" =>
        /\ subscriptions[lastStep.ws] = {}
        /\ topics[lastStep.ws] = {}
        /\ \A channel \in lastStep.subscriptions : channel \in lastStep.called

\* C22: when the authorize hook denies a subscribe of an open socket, the socket is sent
\* exactly the error "Unauthorized" for the path, no snapshot; the snapshot loader is not
\* called; and the socket's subscriptions and topics are what they were, so a socket
\* that was not subscribed to the path is still not subscribed to it and is on no topic
\* that deltas for the path are sent to.
C22_DeniedSubscribeDoesNotSubscribe ==
    lastStep.kind = "deny" =>
        /\ lastStep.open =>
               lastStep.sent = <<ErrorMessage(lastStep.channel, "Unauthorized")>>
        /\ \A i \in DOMAIN lastStep.sent : lastStep.sent[i].type # "snapshot"
        /\ loading[lastStep.ws][lastStep.channel] = lastStep.loading
        /\ subscriptions[lastStep.ws] = lastStep.subscriptions
        /\ topics[lastStep.ws] = lastStep.topics
        /\ lastStep.channel \notin lastStep.subscriptions =>
               /\ lastStep.channel \notin subscriptions[lastStep.ws]
               /\ lastStep.channel \notin topics[lastStep.ws]

\* the hook has denied the subscribe of an open socket that is not subscribed to the path
C22_Witness ==
    /\ lastStep.kind = "deny"
    /\ lastStep.open
    /\ lastStep.channel \notin lastStep.subscriptions
    /\ lastStep.sent # <<>>

\* C21: for every event message on a path, the onEvent handler is invoked only if the
\* path is in the socket's subscriptions when the message is handled, and when it is not
\* the handler is not invoked and the message is answered with exactly the error
\* "Not subscribed" for the path.
C21_EventsNeedSubscription ==
    lastStep.kind = "event" =>
        /\ lastStep.invoked => lastStep.subscribed
        /\ ~lastStep.subscribed =>
               /\ ~lastStep.invoked
               /\ lastStep.sent = <<ErrorMessage(lastStep.channel, "Not subscribed")>>

\* C20: while a path is in a socket's subscriptions the socket has been sent at most one
\* snapshot message for it; a subscribe for a path the socket is already subscribed to
\* does not produce another one.
C20_OneSnapshotPerSubscription ==
    \A ws \in Sockets : \A channel \in Paths :
        channel \in subscriptions[ws] => snapshotsSent[ws][channel] <= 1

(***************************************************************************)
(* Properties of concurrent reconciles                                     *)
(***************************************************************************)
\* C11: two reconcile executions for the same session never interleave: every snapshot
\* an execution is about to reconcile still equals the stored session in all that
\* reconciles write, so no reconcile action is applied on a stale snapshot.
C11_NoStaleSnapshot ==
    /\ \A i \in DOMAIN pending : ~Stale(pending[i])
    /\ \A i \in DOMAIN pendingB : ~Stale(pendingB[i])

\* C12: in reconcileAll a failure while reconciling one session does not stop the loop:
\* the sessions are attempted in the store's order whatever failed before, and the
\* failures are raised as one error only after every session was attempted, holding
\* exactly the sessions that failed.
C12_FailuresDoNotStopTheLoop ==
    tickLog # NoLog =>
        /\ tickLog.attempted \o [i \in 1..Len(pending) |-> pending[i].sessionId]
              = IF tickLog.attempted = <<>> /\ pending = <<>> THEN <<>> ELSE SessionOrder
        /\ tickLog.raised # <<>> => pending = <<>>
        /\ (pending = <<>>) => tickLog.raised = tickLog.errors
        /\ \A i \in DOMAIN tickLog.errors :
              \E j \in DOMAIN tickLog.attempted : tickLog.attempted[j] = tickLog.errors[i]

\* the first session of a reconcileAll failed, the second was still reconciled (it
\* failed too), and both failures were raised together at the end
C12_Witness ==
    /\ tickLog # NoLog
    /\ pending = <<>>
    /\ tickLog.attempted = SessionOrder
    /\ tickLog.raised = SessionOrder

\* C13: in every reachable state a session holds a stream port (streamPort is not null
\* and the allocator has it) if and only if its actual state is starting, running or
\* stopping; a session that is stopped or in error holds no port.
C13_PortIffActive ==
    \A sid \in Sessions :
        (/\ stateStore[sid].streamPort # NullPort
         /\ isAllocated(allocatedPorts, stateStore[sid].streamPort))
        <=> stateStore[sid].actualState \in {"starting", "running", "stopping"}

(***************************************************************************)
(* Properties of the port allocator: the scan                              *)
(***************************************************************************)
\* C14: whenever at least one port of the range is free, allocate returns the
\* lowest-numbered port of [start, end] that is not allocated and marks exactly that
\* port allocated.
C14_LowestFreePortWins ==
    (lastStep.kind = "allocate" /\ RangePorts(PaRange) \ lastStep.set # {}) =>
        /\ ~lastStep.threw
        /\ lastStep.port \in RangePorts(PaRange) \ lastStep.set
        /\ \A q \in RangePorts(PaRange) \ lastStep.set : lastStep.port <= q
        /\ allocatedPorts = lastStep.set \cup {lastStep.port}

\* allocate chose among several free ports
C14_Witness ==
    /\ lastStep.kind = "allocate"
    /\ Cardinality(RangePorts(PaRange) \ lastStep.set) >= 2
    /\ lastStep.port = PaRange.start

\* C15: when every port of the range is allocated, allocate fails with the
\* no-ports-available error and leaves the allocated set unchanged; when a port p of the
\* range is then released, the next allocate returns p.
C15_ExhaustionAndReuse ==
    /\ (lastStep.kind = "allocate" /\ RangePorts(PaRange) \subseteq lastStep.set) =>
            /\ lastStep.threw
            /\ allocatedPorts = lastStep.set
    /\ (/\ lastStep.kind = "allocate"
        /\ lastStep.prev.kind = "release"
        /\ RangePorts(PaRange) \subseteq lastStep.prev.set
        /\ lastStep.prev.port \in RangePorts(PaRange)) =>
            /\ ~lastStep.threw
            /\ lastStep.port = lastStep.prev.port

\* with the whole range allocated: allocate failed, the first port of the range was
\* released, allocate returned it
C15_Witness ==
    /\ lastStep.kind = "allocate"
    /\ lastStep.port = PaRange.start
    /\ lastStep.prev.kind = "release"
    /\ lastStep.prev.port = PaRange.start
    /\ lastStep.prev.prev.kind = "allocate"
    /\ lastStep.prev.prev.threw
    /\ RangePorts(PaRange) \subseteq lastStep.prev.prev.set

(***************************************************************************)
(* Session lifecycle: spawn                                                *)
(***************************************************************************)

Chars == {"a", " ", "\t"}

\* the task summaries callers pass: one that is already normal, one with leading, trailing
\* and repeated whitespace
TaskSummaries == {<<"a">>, <<" ", "a", "\t", " ", "a", " ">>}

\* what \s matches
IsSpace(c) == c \in {" ", "\t"}

RECURSIVE trimStart(_)
trimStart(s) == IF s # <<>> /\ IsSpace(Head(s)) THEN trimStart(Tail(s)) ELSE s

RECURSIVE trimEnd(_)
trimEnd(s) ==
    IF s # <<>> /\ IsSpace(s[Len(s)]) THEN trimEnd(SubSeq(s, 1, Len(s) - 1)) ELSE s

trim(s) == trimEnd(trimStart(s))

\* replace(/\s+/g, " ")
RECURSIVE collapseWhitespace(_)
collapseWhitespace(s) ==
    IF s = <<>> THEN <<>>
    ELSE IF IsSpace(Head(s)) THEN <<" ">> \o collapseWhitespace(trimStart(s))
    ELSE <<Head(s)>> \o collapseWhitespace(Tail(s))

normalizeTaskSummary(taskSummary) == collapseWhitespace(trim(taskSummary))

\* what spawnSession reads and writes: the two tables, the id sequence, the publisher
\* and the background work
Tables ==
    [rows |-> sessionRows, containers |-> sessionContainers, nextRowId |-> nextRowId,
     log |-> publishLog, background |-> background]

DefinitionsOf(rows) == {row.definition : row \in rows}

SessionsAdd(ls, id) ==
    [channel |-> "sessions", type |-> "add", id |-> id, title |-> ls.rows[id].title,
     containers |-> {}]

ContainersSnapshot(ls, id) ==
    [channel |-> "sessionContainers", type |-> "snapshot", id |-> id, title |-> NullTitle,
     containers |-> DefinitionsOf(ls.containers[id])]

\* the publisher is asked to publish a message
publish(log, message) == log (+) SetToBag({message})

publishSessionCreated(ls, id) ==
    [ls EXCEPT !.log = publish(publish(@, SessionsAdd(ls, id)), ContainersSnapshot(ls, id))]

InitializeWork(id) == [kind |-> "initializeSessionContainers", id |-> id]

PoolWork == [kind |-> "reconcilePool", id |-> 0]

scheduleBackgroundWork(ls, id) ==
    [ls EXCEPT !.background = @ \cup {InitializeWork(id), PoolWork}]

PooledRows(rows) == {id \in RowIds : rows[id].status = "pooled"}

\* the oldest pooled session of the project (0: none)
claimPooledSession(rows) ==
    IF PooledRows(rows) = {} THEN 0
    ELSE CHOOSE id \in PooledRows(rows) : \A other \in PooledRows(rows) : id <= other

NoError == "none"

SpawnResult(ls, id, error) ==
    [ls |-> ls, id |-> id,
     containers |-> IF id = 0 THEN {} ELSE DefinitionsOf(ls.containers[id]),
     error |-> error]

claimSchedulesInitialization(ls, title) ==
    LET id == claimPooledSession(ls.rows)
    IN IF id = 0 THEN SpawnResult(ls, 0, NoError)
       ELSE LET claimed == [ls EXCEPT !.rows[id] = [status |-> "running", title |-> title]]
            IN SpawnResult(scheduleBackgroundWork(publishSessionCreated(claimed, id), id),
                           id, NoError)

claimAndPreparePooledSession(ls, title) ==
    LET id == claimPooledSession(ls.rows)
    IN IF id = 0 THEN SpawnResult(ls, 0, NoError)
       ELSE LET claimed == [ls EXCEPT !.rows[id] = [status |-> "running", title |-> title]]
            IN SpawnResult(publishSessionCreated(claimed, id), id, NoError)

InsertRows(ls, definitions, title) ==
    [ls EXCEPT !.rows[ls.nextRowId] = [status |-> "creating", title |-> title],
               !.containers[ls.nextRowId] =
                   {[definition |-> d, dockerId |-> NoDockerId] : d \in definitions},
               !.nextRowId = @ + 1]

createSessionChecksLate(ls, definitions, title) ==
    IF definitions = {}
    THEN SpawnResult(InsertRows(ls, definitions, title), 0,
                     "Project has no container definitions")
    ELSE SpawnResult(publishSessionCreated(InsertRows(ls, definitions, title), ls.nextRowId),
                     ls.nextRowId, NoError)

createSessionWithContainers(ls, definitions, title) ==
    IF definitions = {}
    THEN SpawnResult(ls, 0, "Project has no container definitions")
    ELSE SpawnResult(publishSessionCreated(InsertRows(ls, definitions, title), ls.nextRowId),
                     ls.nextRowId, NoError)

spawnSession(ls, definitions, taskSummary) ==
    LET title == normalizeTaskSummary(taskSummary)
        pooledResult == claimAndPreparePooledSession(ls, title)
        result == createSessionWithContainers(ls, definitions, title)
    IN IF pooledResult.id # 0 THEN pooledResult
       ELSE IF result.error # NoError THEN result
       ELSE [result EXCEPT !.ls = scheduleBackgroundWork(result.ls, result.id)]

lifeFrame == <<stateStore, allocatedPorts, activeSessions, viewerCount, cleanupArmed,
               pending, startCalls, okTicks, paVars, refVars, busVars, ovVars, logVars,
               extVars>>

\* spawnSession; a Session row is inserted only while the model has an id left
SpawnSession(taskSummary) ==
    LET result == spawnSession(Tables, containerDefinitions, taskSummary)
    IN /\ \/ claimPooledSession(sessionRows) # 0
          \/ containerDefinitions = {}
          \/ nextRowId <= MaxRows
       /\ sessionRows' = result.ls.rows
       /\ sessionContainers' = result.ls.containers
       /\ nextRowId' = result.ls.nextRowId
       /\ publishLog' = result.ls.log
       /\ background' = result.ls.background
       /\ lastStep' = [kind |-> "spawn", taskSummary |-> taskSummary, before |-> Tables,
                       pooled |-> claimPooledSession(sessionRows),
                       definitions |-> containerDefinitions,
                       id |-> result.id, containers |-> result.containers,
                       error |-> result.error]
       /\ UNCHANGED <<containerDefinitions, poolSize, dockerContainers, resources,
                      cleanups, stoppedBy, lifeFrame>>

\* initializeSessionContainers for a scheduled session: the network, the containers of
\* the rows that have no dockerId, the proxy routes and the browser, then status running
\* and the pool reconciler; a session whose row is gone or deleting is left alone
InitializeSessionContainers(id) ==
    /\ InitializeWork(id) \in background
    /\ IF sessionRows[id].status = "creating"
       THEN /\ sessionRows' = [sessionRows EXCEPT ![id].status = "running"]
            /\ sessionContainers' =
                   [sessionContainers EXCEPT ![id] =
                       {[row EXCEPT !.dockerId = DockerId(id, row.definition)] : row \in @}]
            /\ dockerContainers' =
                   dockerContainers \cup
                       {DockerId(id, row.definition) : row \in sessionContainers[id]}
            /\ resources' = [resources EXCEPT ![id] =
                                [browser |-> TRUE, proxy |-> TRUE, network |-> TRUE]]
            /\ publishLog' = publish(publishLog,
                                     [channel |-> "sessionContainers", type |-> "update",
                                      id |-> id, title |-> NullTitle,
                                      containers |-> DefinitionsOf(sessionContainers[id])])
            /\ background' = (background \ {InitializeWork(id)}) \cup {PoolWork}
       ELSE /\ background' = background \ {InitializeWork(id)}
            /\ UNCHANGED <<sessionRows, sessionContainers, dockerContainers, resources,
                           publishLog>>
    /\ lastStep' = NoStep
    /\ UNCHANGED <<containerDefinitions, poolSize, nextRowId, cleanups, stoppedBy,
                   lifeFrame>>

\* reconcilePool: one more pooled session, with its containers running, while fewer
\* than poolSize are pooled and the model has an id left
ReconcilePool ==
    /\ PoolWork \in background
    /\ background' = background \ {PoolWork}
    /\ IF Cardinality(PooledRows(sessionRows)) < poolSize /\ nextRowId <= MaxRows
       THEN /\ sessionRows' = [sessionRows EXCEPT ![nextRowId] =
                                  [status |-> "pooled", title |-> NullTitle]]
            /\ sessionContainers' =
                   [sessionContainers EXCEPT ![nextRowId] =
                       {[definition |-> d, dockerId |-> DockerId(nextRowId, d)] :
                           d \in containerDefinitions}]
            /\ dockerContainers' =
                   dockerContainers \cup {DockerId(nextRowId, d) : d \in containerDefinitions}
            /\ resources' = [resources EXCEPT ![nextRowId] =
                                [browser |-> FALSE, proxy |-> TRUE, network |-> TRUE]]
            /\ nextRowId' = nextRowId + 1
       ELSE UNCHANGED <<sessionRows, sessionContainers, dockerContainers, resources,
                        nextRowId>>
    /\ lastStep' = NoStep
    /\ UNCHANGED <<containerDefinitions, poolSize, publishLog, cleanups, stoppedBy,
                   lifeFrame>>

(***************************************************************************)
(* Session lifecycle: cleanupSession                                       *)
(***************************************************************************)

\* "returned": the call found no session; "done": it ran to the end; "threw": it failed
Ended == {"returned", "done", "threw"}

InProgress(call) == cleanups[call].pc \notin {"idle"} \cup Ended

SessionsRemove(id, title) ==
    [channel |-> "sessions", type |-> "remove", id |-> id, title |-> title,
     containers |-> {}]

\* the session repository: the row, or the absent row for null
findSessionById(rows, id) == rows[id]

markSessionKeepsStatus(rows, id) == rows

\* the session repository: an update of the row, if there is one
markSessionDeleting(rows, id) ==
    [rows EXCEPT ![id].status = IF @ = "absent" THEN @ ELSE "deleting"]

\* the session repository: the row is deleted
deleteSession(rows, id) == [rows EXCEPT ![id] = NoRow]

\* the delete cascades to the session containers of the row
deleteCascade(containers, id) == [containers EXCEPT ![id] = {}]

\* the container repository
findSessionContainersBySessionId(containers, id) == containers[id]

\* the browser service, the proxy manager and the network helper
forceStopBrowser(res, id) == [res EXCEPT ![id].browser = FALSE]

unregisterCluster(res, id) == [res EXCEPT ![id].proxy = FALSE]

cleanupSessionNetwork(res, id) == [res EXCEPT ![id].network = FALSE]

cleanupAlwaysProceeds(session) == FALSE

\* if (!session) return
cleanupReturnsEarly(session) == session.status = "absent"

cleanupFrame == <<containerDefinitions, poolSize, nextRowId, background, lifeFrame>>

\* cleanupSession is called for a session that was created: a call of the DELETE route,
\* a retry, or a recovery sweep
CleanupBegin(call, id) ==
    /\ cleanups[call].pc = "idle"
    /\ call = "y" => cleanups["x"].pc # "idle"
    /\ id < nextRowId
    /\ cleanups' = [cleanups EXCEPT ![call] =
                       [pc |-> "findSessionById", sessionId |-> id, title |-> NullTitle,
                        containers |-> {}, failures |-> {},
                        late |-> \E other \in Calls : /\ cleanups[other].pc = "done"
                                                      /\ cleanups[other].sessionId = id]]
    /\ lastStep' = NoStep
    /\ UNCHANGED <<sessionRows, sessionContainers, dockerContainers, resources, publishLog,
                   stoppedBy, cleanupFrame>>

\* cleanupSession is called while no other call is in progress
CleanupCall(call, id) ==
    /\ \A other \in Calls : ~InProgress(other)
    /\ CleanupBegin(call, id)

\* const session = await findSessionById(sessionId); if (!session) return
CleanupFind(call) ==
    /\ cleanups[call].pc = "findSessionById"
    /\ cleanups' = [cleanups EXCEPT
                       ![call].pc = IF cleanupReturnsEarly(
                                           findSessionById(sessionRows, cleanups[call].sessionId))
                                    THEN "returned" ELSE "markSessionDeleting",
                       ![call].title = findSessionById(sessionRows, cleanups[call].sessionId).title]
    /\ lastStep' = NoStep
    /\ UNCHANGED <<sessionRows, sessionContainers, dockerContainers, resources, publishLog,
                   stoppedBy, cleanupFrame>>

\* await markSessionDeleting(sessionId), then the sessions remove delta with the session
\* that was read; a failing update ends the call
CleanupMark(call, ok) ==
    LET id == cleanups[call].sessionId
    IN /\ cleanups[call].pc = "markSessionDeleting"
       /\ IF ok
          THEN /\ sessionRows' = markSessionDeleting(sessionRows, id)
               /\ publishLog' = publish(publishLog, SessionsRemove(id, cleanups[call].title))
               /\ cleanups' = [cleanups EXCEPT ![call].pc = "findSessionContainers"]
          ELSE /\ cleanups' = [cleanups EXCEPT ![call].pc = "threw",
                                                ![call].failures = @ \cup {"mark"}]
               /\ UNCHANGED <<sessionRows, publishLog>>
       /\ lastStep' = NoStep
       /\ UNCHANGED <<sessionContainers, dockerContainers, resources, stoppedBy,
                      cleanupFrame>>

\* findSessionContainersBySessionId and the filter on dockerId
CleanupReadContainers(call) ==
    /\ cleanups[call].pc = "findSessionContainers"
    /\ cleanups' = [cleanups EXCEPT
                       ![call].pc = "stopAndRemove",
                       ![call].containers =
                           {row.dockerId : row \in
                               {r \in findSessionContainersBySessionId(
                                           sessionContainers, cleanups[call].sessionId) :
                                   r.dockerId # NoDockerId}}]
    /\ lastStep' = NoStep
    /\ UNCHANGED <<sessionRows, sessionContainers, dockerContainers, resources, publishLog,
                   stoppedBy, cleanupFrame>>

\* Promise.allSettled over stopAndRemoveContainerWithVerification: the provider is asked to
\* stop and remove every container that was read; the containers in failing, and those
\* that no longer exist, fail and are logged
CleanupContainers(call, failing) ==
    LET asked == cleanups[call].containers
        left == (asked \cap dockerContainers) \cap failing
    IN /\ cleanups[call].pc = "stopAndRemove"
       /\ failing \subseteq asked
       /\ dockerContainers' = (dockerContainers \ asked) \cup left
       /\ stoppedBy' = [id \in RowIds, definition \in Definitions |->
                           IF DockerId(id, definition) \in asked
                           THEN stoppedBy[id, definition] \cup {call}
                           ELSE stoppedBy[id, definition]]
       /\ cleanups' = [cleanups EXCEPT
                          ![call].pc = "forceStopBrowser",
                          ![call].failures = IF left = {} THEN @ ELSE @ \cup {"docker"}]
       /\ lastStep' = NoStep
       /\ UNCHANGED <<sessionRows, sessionContainers, resources, publishLog, cleanupFrame>>

\* await browserService.forceStopBrowser(sessionId): outside any try, a failure ends the call
CleanupBrowser(call, ok) ==
    /\ cleanups[call].pc = "forceStopBrowser"
    /\ IF ok
       THEN /\ resources' = forceStopBrowser(resources, cleanups[call].sessionId)
            /\ cleanups' = [cleanups EXCEPT ![call].pc = "unregisterCluster"]
       ELSE /\ cleanups' = [cleanups EXCEPT ![call].pc = "threw",
                                             ![call].failures = @ \cup {"browser"}]
            /\ UNCHANGED resources
    /\ lastStep' = NoStep
    /\ UNCHANGED <<sessionRows, sessionContainers, dockerContainers, publishLog, stoppedBy,
                   cleanupFrame>>

\* proxyManager.unregisterCluster inside try/catch
CleanupProxy(call, ok) ==
    /\ cleanups[call].pc = "unregisterCluster"
    /\ resources' = IF ok THEN unregisterCluster(resources, cleanups[call].sessionId)
                    ELSE resources
    /\ cleanups' = [cleanups EXCEPT
                       ![call].pc = "cleanupSessionNetwork",
                       ![call].failures =
                           IF ok \/ ~resources[cleanups[call].sessionId].proxy
                           THEN @ ELSE @ \cup {"proxy"}]
    /\ lastStep' = NoStep
    /\ UNCHANGED <<sessionRows, sessionContainers, dockerContainers, publishLog, stoppedBy,
                   cleanupFrame>>

\* cleanupSessionNetwork inside try/catch
CleanupNetwork(call, ok) ==
    /\ cleanups[call].pc = "cleanupSessionNetwork"
    /\ resources' = IF ok THEN cleanupSessionNetwork(resources, cleanups[call].sessionId)
                    ELSE resources
    /\ cleanups' = [cleanups EXCEPT
                       ![call].pc = "deleteSession",
                       ![call].failures =
                           IF ok \/ ~resources[cleanups[call].sessionId].network
                           THEN @ ELSE @ \cup {"network"}]
    /\ lastStep' = NoStep
    /\ UNCHANGED <<sessionRows, sessionContainers, dockerContainers, publishLog, stoppedBy,
                   cleanupFrame>>

\* await deleteSession(sessionId): the row and, by cascade, its session containers
CleanupDelete(call, ok) ==
    LET id == cleanups[call].sessionId
    IN /\ cleanups[call].pc = "deleteSession"
       /\ IF ok
          THEN /\ sessionRows' = deleteSession(sessionRows, id)
               /\ sessionContainers' = deleteCascade(sessionContainers, id)
               /\ cleanups' = [cleanups EXCEPT ![call].pc = "done"]
          ELSE /\ cleanups' = [cleanups EXCEPT ![call].pc = "threw",
                                                ![call].failures = @ \cup {"delete"}]
               /\ UNCHANGED <<sessionRows, sessionContainers>>
       /\ lastStep' = NoStep
       /\ UNCHANGED <<dockerContainers, resources, publishLog, stoppedBy, cleanupFrame>>

\* a project with or without container definitions and with or without a pooled session
LifeInit ==
    /\ RefInit
    /\ BusInit
    /\ OvInit
    /\ ExtInit
    /\ LogInit
    /\ allocatedPorts = createPortAllocator({})
    /\ held = {}
    /\ stateStore = [sid \in Sessions |-> NewSession(sid)]
    /\ activeSessions = [sid \in Sessions |-> NoDaemon]
    /\ viewerCount = [sid \in Sessions |-> 0]
    /\ cleanupArmed = [sid \in Sessions |-> FALSE]
    /\ pending = <<>>
    /\ lastStep = NoStep
    /\ startCalls = [sid \in Sessions |-> 0]
    /\ okTicks = [sid \in Sessions |-> -2]
    /\ containerDefinitions \in {{}, {"d1"}, {"d1", "d2"}}
    /\ poolSize \in IF containerDefinitions = {} THEN {0} ELSE {0, 1}
    /\ sessionRows = [id \in RowIds |->
                         IF id <= poolSize THEN [status |-> "pooled", title |-> NullTitle]
                         ELSE NoRow]
    /\ sessionContainers =
           [id \in RowIds |->
               IF id <= poolSize
               THEN {[definition |-> d, dockerId |-> DockerId(id, d)] :
                        d \in containerDefinitions}
               ELSE {}]
    /\ nextRowId = poolSize + 1
    /\ dockerContainers = {DockerId(id, d) : id \in 1 .. poolSize, d \in containerDefinitions}
    /\ resources = [id \in RowIds |->
                       IF id <= poolSize
                       THEN [browser |-> FALSE, proxy |-> TRUE, network |-> TRUE]
                       ELSE NoResources]
    /\ publishLog = EmptyBag
    /\ background = {}
    /\ cleanups = [call \in Calls |-> IdleCall]
    /\ stoppedBy = [id \in RowIds, definition \in Definitions |-> {}]

LifeNext ==
    \/ \E taskSummary \in TaskSummaries : SpawnSession(taskSummary)
    \/ \E id \in RowIds : InitializeSessionContainers(id)
    \/ ReconcilePool
    \/ \E call \in Calls, id \in RowIds : CleanupCall(call, id)
    \/ \E call \in Calls : CleanupFind(call)
    \/ \E call \in Calls, ok \in BOOLEAN : CleanupMark(call, ok)
    \/ \E call \in Calls : CleanupReadContainers(call)
    \/ \E call \in Calls, id \in RowIds, definitions \in SUBSET Definitions :
          CleanupContainers(call, {DockerId(id, d) : d \in definitions})
    \/ \E call \in Calls, ok \in BOOLEAN : CleanupBrowser(call, ok)
    \/ \E call \in Calls, ok \in BOOLEAN : CleanupProxy(call, ok)
    \/ \E call \in Calls, ok \in BOOLEAN : CleanupNetwork(call, ok)
    \/ \E call \in Calls, ok \in BOOLEAN : CleanupDelete(call, ok)

LifeSpec == LifeInit /\ [][LifeNext]_vars

\* Two cleanupSession calls at once: a session that was spawned with the task summary
\* "a" for a project with two container definitions, initialized, and whose pool
\* reconciliation has run
RaceSession ==
    LET empty == [rows |-> [id \in RowIds |-> NoRow],
                  containers |-> [id \in RowIds |-> {}],
                  nextRowId |-> 1, log |-> EmptyBag, background |-> {}]
    IN spawnSession(empty, Definitions, <<"a">>).ls

RaceInit ==
    /\ RefInit
    /\ BusInit
    /\ OvInit
    /\ ExtInit
    /\ LogInit
    /\ allocatedPorts = createPortAllocator({})
    /\ held = {}
    /\ stateStore = [sid \in Sessions |-> NewSession(sid)]
    /\ activeSessions = [sid \in Sessions |-> NoDaemon]
    /\ viewerCount = [sid \in Sessions |-> 0]
    /\ cleanupArmed = [sid \in Sessions |-> FALSE]
    /\ pending = <<>>
    /\ lastStep = NoStep
    /\ startCalls = [sid \in Sessions |-> 0]
    /\ okTicks = [sid \in Sessions |-> -2]
    /\ containerDefinitions = Definitions
    /\ poolSize = 0
    /\ sessionRows = [RaceSession.rows EXCEPT ![1].status = "running"]
    /\ sessionContainers =
           [RaceSession.containers EXCEPT ![1] =
               {[row EXCEPT !.dockerId = DockerId(1, row.definition)] : row \in @}]
    /\ nextRowId = RaceSession.nextRowId
    /\ dockerContainers = {DockerId(1, d) : d \in Definitions}
    /\ resources = [id \in RowIds |->
                       IF id = 1 THEN [browser |-> TRUE, proxy |-> TRUE, network |-> TRUE]
                       ELSE NoResources]
    /\ publishLog = publish(RaceSession.log,
                            [channel |-> "sessionContainers", type |-> "update", id |-> 1,
                             title |-> NullTitle, containers |-> Definitions])
    /\ background = {}
    /\ cleanups = [call \in Calls |-> IdleCall]
    /\ stoppedBy = [id \in RowIds, definition \in Definitions |-> {}]

RaceNext ==
    \/ \E call \in Calls, id \in RowIds : CleanupBegin(call, id)
    \/ \E call \in Calls : CleanupFind(call)
    \/ \E call \in Calls, ok \in BOOLEAN : CleanupMark(call, ok)
    \/ \E call \in Calls : CleanupReadContainers(call)
    \/ \E call \in Calls, id \in RowIds, definitions \in SUBSET Definitions :
          CleanupContainers(call, {DockerId(id, d) : d \in definitions})
    \/ \E call \in Calls, ok \in BOOLEAN : CleanupBrowser(call, ok)
    \/ \E call \in Calls, ok \in BOOLEAN : CleanupProxy(call, ok)
    \/ \E call \in Calls, ok \in BOOLEAN : CleanupNetwork(call, ok)
    \/ \E call \in Calls, ok \in BOOLEAN : CleanupDelete(call, ok)

RaceSpec == RaceInit /\ [][RaceNext]_vars

(***************************************************************************)
(* Properties of cleanupSession                                            *)
(***************************************************************************)

\* what cleanupSession can change: the tables, the provider and the publisher
CleanupEffects ==
    <<sessionRows, sessionContainers, dockerContainers, resources, publishLog, stoppedBy>>

\* nothing of the session is left: no row, no session container, no container in the
\* provider, no browser, no proxy route, no network
SessionGone(id) ==
    /\ sessionRows[id] = NoRow
    /\ sessionContainers[id] = {}
    /\ \A d \in Definitions : DockerId(id, d) \notin dockerContainers
    /\ resources[id] = NoResources

\* a call that found no session or ran to the end leaves no row and no session
\* container, and a call that ran to the end without any of the failures it tolerates
\* leaves nothing at all
CleanupEndState ==
    \A call \in Calls :
        cleanups[call].pc \in {"returned", "done"} =>
            /\ sessionRows[cleanups[call].sessionId] = NoRow
            /\ sessionContainers[cleanups[call].sessionId] = {}
            /\ (cleanups[call].pc = "done" /\ cleanups[call].failures = {}) =>
                   SessionGone(cleanups[call].sessionId)

\* a step of a call that began after a call for the same session had returned
SecondCallStep(call) == cleanups[call].late /\ cleanups'[call] # cleanups[call]

\* C16: cleanupSession is idempotent. Every step of a call that began after a call for
\* the same session returned leaves the tables, the provider and the publisher as they
\* are and does not fail; and every call that returns, a re-run after an interrupted
\* call included, leaves the Session row and its session containers gone, and nothing
\* of the session when no tolerated failure happened.
C16_CleanupIdempotent ==
    /\ []CleanupEndState
    /\ [][\A call \in Calls :
             SecondCallStep(call) =>
                 /\ UNCHANGED CleanupEffects
                 /\ cleanups'[call].pc # "threw"]_vars

\* the second of two calls for a session that existed has returned, after the first
\* one returned and deleted the row
C16_Witness ==
    /\ cleanups["y"].pc = "returned"
    /\ cleanups["y"].late
    /\ cleanups["x"].pc = "done"
    /\ cleanups["x"].sessionId = cleanups["y"].sessionId
    /\ \E m \in BagToSet(publishLog) :
          m.type = "remove" /\ m.id = cleanups["y"].sessionId

\* a call that was interrupted at the forced browser stop was run again and returned
C16_RerunWitness ==
    /\ cleanups["x"].pc = "threw"
    /\ cleanups["y"].pc = "done"
    /\ cleanups["x"].sessionId = cleanups["y"].sessionId
    /\ SessionGone(cleanups["y"].sessionId)
    /\ stoppedBy[cleanups["y"].sessionId, "d1"] = {"x", "y"}

RemoveMessages(id) ==
    {m \in BagToSet(publishLog) : m.channel = "sessions" /\ m.type = "remove" /\ m.id = id}

\* C17: while two cleanupSession calls for the same session are both under way or have
\* returned (neither failed), the sessions remove delta of the session was published at
\* most once and the provider was asked by at most one of the calls to stop and remove
\* each of its containers.
C17_CleanupsSerialize ==
    \A id \in RowIds :
        (\A call \in Calls : /\ cleanups[call].sessionId = id
                             /\ cleanups[call].pc \notin {"idle", "threw"}) =>
            /\ \A m \in RemoveMessages(id) : CopiesIn(m, publishLog) <= 1
            /\ \A d \in Definitions : Cardinality(stoppedBy[id, d]) <= 1

\* a step of a call that asks the provider to stop containers of the session
StopsContainers(call, id) ==
    /\ cleanups[call].sessionId = id
    /\ \E d \in Definitions : call \in stoppedBy'[id, d] \ stoppedBy[id, d]

\* a step that deletes the Session row
DeletesRow(id) == sessionRows[id] # NoRow /\ sessionRows'[id] = NoRow

\* C31: a step of cleanupSession that asks the provider to stop a container of the
\* session is taken when the row is marked deleting and the sessions remove delta of the
\* session is published; and the step that deletes the Session row is taken by a call
\* that has asked the provider to stop every container it read, has stopped the browser,
\* and has unregistered the proxy route and removed the network or has failed to.
C31_MarkFirstDeleteLast ==
    [][\A id \in RowIds :
          /\ \A call \in Calls :
                 StopsContainers(call, id) =>
                     /\ sessionRows[id].status = "deleting"
                     /\ RemoveMessages(id) # {}
          /\ DeletesRow(id) =>
                 \E call \in Calls :
                     /\ cleanups[call].sessionId = id
                     /\ cleanups[call].pc = "deleteSession"
                     /\ cleanups'[call].pc = "done"
                     /\ RemoveMessages(id) # {}
                     /\ \A d \in Definitions :
                            DockerId(id, d) \in cleanups[call].containers =>
                                call \in stoppedBy[id, d]
                     /\ ~resources[id].browser
                     /\ ~resources[id].proxy \/ "proxy" \in cleanups[call].failures
                     /\ ~resources[id].network \/ "network" \in cleanups[call].failures]_vars

\* a call has deleted the row of a session with two containers after the proxy
\* unregistration failed
C31_Witness ==
    \E call \in Calls :
        /\ cleanups[call].pc = "done"
        /\ Cardinality(cleanups[call].containers) = 2
        /\ "proxy" \in cleanups[call].failures
        /\ sessionRows[cleanups[call].sessionId] = NoRow
        /\ \A d \in Definitions : call \in stoppedBy[cleanups[call].sessionId, d]

\* C37: a cleanupSession call for a session that exists, in which neither the marking
\* nor the delete of the row itself failed, ends with the Session row deleted, whatever
\* else failed: a container stop or removal or its verification, the forced browser
\* stop, the proxy route unregistration or the network removal.
C37_RowDeletedDespiteFailures ==
    \A call \in Calls :
        (/\ cleanups[call].pc \in {"done", "threw"}
         /\ cleanups[call].failures \cap {"mark", "delete"} = {}) =>
            sessionRows[cleanups[call].sessionId] = NoRow

(***************************************************************************)
(* Properties of spawnSession                                              *)
(***************************************************************************)

\* C18: a spawn that finds no pooled session and no container definition fails with the
\* no-container-definitions error and leaves the Session rows, the SessionContainer
\* rows, the id sequence, the published messages and the scheduled background work
\* exactly as they were before the call.
C18_NoDefinitionsNoEffect ==
    (lastStep.kind = "spawn" /\ lastStep.pooled = 0 /\ lastStep.definitions = {}) =>
        /\ lastStep.error = "Project has no container definitions"
        /\ lastStep.id = 0
        /\ Tables = lastStep.before

\* a spawn for a project without definitions and without a pooled session has failed
C18_Witness ==
    /\ lastStep.kind = "spawn"
    /\ lastStep.pooled = 0
    /\ lastStep.definitions = {}
    /\ lastStep.error # NoError

\* a title in normal form for a task summary: the same characters other than whitespace,
\* in the same order, single spaces only, and none at either end
NormalFormOf(title, taskSummary) ==
    /\ SelectSeq(title, LAMBDA c : ~IsSpace(c)) = SelectSeq(taskSummary, LAMBDA c : ~IsSpace(c))
    /\ \A i \in 1 .. Len(title) : title[i] # "\t"
    /\ title # <<>> => (~IsSpace(title[1]) /\ ~IsSpace(title[Len(title)]))
    /\ \A i \in 1 .. Len(title) - 1 : ~(IsSpace(title[i]) /\ IsSpace(title[i + 1]))

AddMessages(log, id) ==
    {m \in BagToSet(log) : m.channel = "sessions" /\ m.type = "add" /\ m.id = id}

MaxFrames == 3

pxFrame == <<recVars, paVars, refVars, busVars, ovVars, logVars, lsVars, httpExchange, monVars,
            clVars, authVars, lateVars>>

flushNewestFirst(received, buffered) ==
    received \o [i \in 1 .. Len(buffered) |-> buffered[Len(buffered) + 1 - i]]

\* upstreamWs.onopen: for (const msg of ws.data.pendingMessages) upstreamWs.send(msg)
flushPending(received, buffered) == received \o buffered

\* websocket.open: the upstream socket is created and starts to connect
ProxyWsOpen ==
    /\ wsState = "new"
    /\ wsState' = "open"
    /\ upstreamWs' = "connecting"
    /\ UNCHANGED <<pendingMessages, sentFrames, upstreamFrames, downFrames, clientFrames,
                   flushed, pxFrame>>

\* websocket.message: the frame goes upstream if the upstream socket is open, else it is
\* pushed on pendingMessages
ProxyWsMessage ==
    /\ wsState = "open"
    /\ sentFrames < MaxFrames
    /\ sentFrames' = sentFrames + 1
    /\ IF upstreamWs = "open"
       THEN /\ upstreamFrames' = Append(upstreamFrames, sentFrames + 1)
            /\ UNCHANGED pendingMessages
       ELSE /\ pendingMessages' = Append(pendingMessages, sentFrames + 1)
            /\ UNCHANGED upstreamFrames
    /\ UNCHANGED <<wsState, upstreamWs, downFrames, clientFrames, flushed, pxFrame>>

\* the upstream connection opens: readyState is OPEN and onopen flushes pendingMessages
UpstreamOpen ==
    /\ upstreamWs = "connecting"
    /\ upstreamWs' = "open"
    /\ upstreamFrames' = flushPending(upstreamFrames, pendingMessages)
    /\ pendingMessages' = <<>>
    /\ flushed' = Len(pendingMessages)
    /\ UNCHANGED <<wsState, sentFrames, downFrames, clientFrames, pxFrame>>

\* upstreamWs.onmessage: ws.send(event.data); a closed client socket receives nothing
UpstreamMessage ==
    /\ upstreamWs = "open"
    /\ downFrames < MaxFrames
    /\ downFrames' = downFrames + 1
    /\ clientFrames' = IF wsState = "open" THEN Append(clientFrames, downFrames + 1)
                       ELSE clientFrames
    /\ UNCHANGED <<wsState, upstreamWs, pendingMessages, sentFrames, upstreamFrames,
                   flushed, pxFrame>>

\* the upstream starts to close: readyState is CLOSING until onclose runs
UpstreamClosing ==
    /\ upstreamWs = "open"
    /\ upstreamWs' = "closing"
    /\ UNCHANGED <<wsState, pendingMessages, sentFrames, upstreamFrames, downFrames,
                   clientFrames, flushed, pxFrame>>

\* upstreamWs.onclose, also after a failed connect (onerror, then onclose): ws.close()
UpstreamClose ==
    /\ upstreamWs \in {"connecting", "open", "closing"}
    /\ upstreamWs' = "closed"
    /\ wsState' = "closed"
    /\ UNCHANGED <<pendingMessages, sentFrames, upstreamFrames, downFrames, clientFrames,
                   flushed, pxFrame>>

\* websocket.close: the client went away; upstreamWs.close()
ProxyWsClose ==
    /\ wsState = "open"
    /\ wsState' = "closed"
    /\ upstreamWs' = IF upstreamWs = "open" THEN "closing"
                     ELSE IF upstreamWs = "connecting" THEN "closed"
                     ELSE upstreamWs
    /\ UNCHANGED <<pendingMessages, sentFrames, upstreamFrames, downFrames, clientFrames,
                   flushed, pxFrame>>

ProxyWsNext ==
    \/ ProxyWsOpen
    \/ ProxyWsMessage
    \/ UpstreamOpen
    \/ UpstreamMessage
    \/ UpstreamClosing
    \/ UpstreamClose
    \/ ProxyWsClose

ProxyWsSpec == Init /\ [][ProxyWsNext]_vars

(***************************************************************************)
(* Properties of the proxied WebSocket connection                          *)
(***************************************************************************)

\* the first n frames the client sent
FirstFrames(n) == [i \in 1 .. n |-> i]

\* C24: the upstream has received the first frames the client sent, each once and in the
\* order they were sent; while the upstream is connecting or open every frame not yet
\* received is in the buffer, in order, behind the received ones; and once the upstream
\* is open the buffer is empty, so the frames that arrived before the open reached the
\* upstream before any later frame.
C24_FramesReachUpstreamInOrder ==
    /\ \E n \in 0 .. sentFrames : upstreamFrames = FirstFrames(n)
    /\ upstreamWs \in {"connecting", "open"} =>
           upstreamFrames \o pendingMessages = FirstFrames(sentFrames)
    /\ upstreamWs = "open" => pendingMessages = <<>>

\* two frames were buffered and flushed when the upstream opened, and a later frame
\* followed them
C24_Witness ==
    /\ upstreamWs = "open"
    /\ flushed >= 2
    /\ Len(upstreamFrames) > flushed

(***************************************************************************)
(* The proxy: main.fetch                                                   *)
(***************************************************************************)

Methods == {"GET", "POST", "OPTIONS"}
Pathnames == {"/health", "/app"}
NoHost == "null"
Hosts == {NoHost, "example.com", "s1--3000.lab"}

\* corsHeaders(): the permissive headers
corsHeaders ==
    { <<"Access-Control-Allow-Origin", "*">>,
      <<"Access-Control-Allow-Methods", "GET,POST,PUT,PATCH,DELETE,OPTIONS">>,
      <<"Access-Control-Allow-Headers", "Content-Type, Authorization, X-Lab-Session-Id">> }

\* the headers an upstream may answer with: none, or its own allow-origin
UpstreamHeaders == { {}, {<<"Access-Control-Allow-Origin", "https://a.example">>} }

\* what proxyRequest gives: the upstream's response, a 502 for an unreachable upstream,
\* or an exception
ProxyOutcomes ==
    [kind : {"response"}, status : {200, 502}, headers : UpstreamHeaders]
        \cup {[kind |-> "throws", status |-> 0, headers |-> {}]}

\* a request, with what its environment will answer: the route lookup (resolveUpstream),
\* server.upgrade and proxyRequest
Requests ==
    [method : Methods, pathname : Pathnames, host : Hosts,
     upgrade : {"websocket", "null"},
     route : {"found", "null", "throws"}, upgraded : BOOLEAN, proxied : ProxyOutcomes]

\* new Response(body, {status, headers}); resolved and contacted record the calls of
\* resolveUpstream and of proxyRequest / server.upgrade made for it
Response(status, headers, resolved, contacted) ==
    [status |-> status, headers |-> headers, resolved |-> resolved, contacted |-> contacted]

\* parseSubdomain: null (the empty sequence) unless the host is
\* <session>--<port>.<baseDomain>
parseSubdomain(host) ==
    IF host = "s1--3000.lab" THEN <<[sessionId |-> "s1", port |-> 3000]>> ELSE <<>>

\* loggedClientError: new Response(message, {status: statusCode})
loggedClientError(statusCode, resolved) == Response(statusCode, {}, resolved, FALSE)

\* the catch of main.fetch: new Response("Internal Server Error", {status: 500})
internalServerError(resolved, contacted) == Response(500, {}, resolved, contacted)

\* tryWebSocketUpgrade: undefined after a successful upgrade (the server answers 101),
\* else a 500
tryWebSocketUpgrade(request) ==
    IF request.upgraded THEN Response(101, {}, TRUE, TRUE)
    ELSE Response(500, {}, TRUE, TRUE)

\* buildCorsProxyResponse: headers.set(key, value) for every CORS header
buildCorsProxyResponse(response) ==
    Response(response.status,
             {h \in response.headers : \A c \in corsHeaders : c[1] # h[1]} \cup corsHeaders,
             TRUE, TRUE)

\* if (request.method === "OPTIONS")
isOptions(request) == request.method = "OPTIONS"

\* main.fetch, with resolveUpstreamForRequest inlined
fetch(request) ==
    IF request.pathname = "/health" THEN Response(200, {}, FALSE, FALSE)
    ELSE IF isOptions(request) THEN Response(204, corsHeaders, FALSE, FALSE)
    ELSE IF request.host = NoHost THEN loggedClientError(400, FALSE)
    ELSE IF parseSubdomain(request.host) = <<>> THEN loggedClientError(400, FALSE)
    ELSE IF request.route = "throws" THEN internalServerError(TRUE, FALSE)
    ELSE IF request.route = "null" THEN loggedClientError(404, TRUE)
    ELSE IF request.upgrade = "websocket" THEN tryWebSocketUpgrade(request)
    ELSE IF request.proxied.kind = "throws" THEN internalServerError(TRUE, TRUE)
    ELSE buildCorsProxyResponse(request.proxied)

httpFrame == <<recVars, paVars, refVars, busVars, ovVars, logVars, lsVars, pxVars, monVars, clVars,
              authVars, lateVars>>

\* the listener receives a request and answers it
ProxyFetch ==
    /\ \E request \in Requests :
           httpExchange' = [answered |-> TRUE, request |-> request,
                            response |-> fetch(request)]
    /\ UNCHANGED httpFrame

ProxyHttpSpec == Init /\ [][ProxyFetch]_vars

(***************************************************************************)
(* Properties of main.fetch                                                *)
(***************************************************************************)

Answered == httpExchange.answered

HasCors(response) == corsHeaders \subseteq response.headers

\* C25: every OPTIONS request, whatever its path and Host header, is answered 204 with
\* the CORS headers, and no upstream was resolved or contacted for it.
C25_OptionsAnswered204 ==
    (Answered /\ httpExchange.request.method = "OPTIONS") =>
        /\ httpExchange.response.status = 204
        /\ HasCors(httpExchange.response)
        /\ ~httpExchange.response.resolved
        /\ ~httpExchange.response.contacted

\* C26: every response main.fetch returns carries the permissive CORS headers: the
\* proxied upstream responses and the 400, 404, 500 and 502 error responses (the 101 of
\* a WebSocket upgrade is the server's, not a response of main.fetch).
C26_EveryResponseHasCors ==
    (Answered /\ httpExchange.response.status # 101) => HasCors(httpExchange.response)

(***************************************************************************)
(* The container event monitors                                            *)
(***************************************************************************)

\* consecutive stream failures followed
MaxFailures == 8

EventActions == {"start", "stop", "die", "kill", "restart", "oom", "health_status", "destroy"}

\* a provider event: its action, the health_status attribute, the lab.session label
\* ("null": no label) and the runtime id of the container
ContainerEvents ==
    [action : EventActions \ {"health_status"}, health : {"null"},
     session : {"s1", "s2", "null"}, containerId : {"d1", "d2", "d9"}]
    \cup [action : {"health_status"}, health : {"healthy", "unhealthy"},
          session : {"s1", "s2", "null"}, containerId : {"d1", "d2", "d9"}]

mapRestartToRunning(event) ==
    CASE event.action \in {"start", "restart"} -> "running"
      [] event.action \in {"stop", "die", "kill"} -> "stopped"
      [] event.action = "oom" -> "error"
      [] event.action = "health_status" /\ event.health = "unhealthy" -> "error"
      [] OTHER -> "null"

mapEventToStatus(event) ==
    CASE event.action = "start" -> "running"
      [] event.action \in {"stop", "die", "kill"} -> "stopped"
      [] event.action = "restart" -> "starting"
      [] event.action = "oom" -> "error"
      [] event.action = "health_status" /\ event.health = "unhealthy" -> "error"
      [] OTHER -> "null"

\* findSessionContainerByDockerId: the ids of the rows with that runtime id
findSessionContainerByDockerId(rows, dockerId) ==
    {r \in MonRowIds : rows[r].dockerId = dockerId}

\* updateSessionContainerStatus
updateSessionContainerStatus(rows, id, status) ==
    [rows EXCEPT ![id].status = status]

\* the update delta: {type, container: {id, status}} of ContainerMonitor, {type, id,
\* status} of startContainerMonitor
updateDelta(kind, id, status) ==
    IF kind = "container"
    THEN [type |-> "update", container |-> [id |-> id, status |-> status]]
    ELSE [type |-> "update", id |-> id, status |-> status]

\* publisher.publishDelta("sessionContainers", {uuid: sessionId}, delta)
publishedDelta(sessionId, delta) ==
    [channel |-> "sessionContainers", uuid |-> sessionId, delta |-> delta]

\* the body of the for await loop of a container monitor: the rows after the event and
\* the deltas published for it
processContainerEvent(kind, rows, event) ==
    LET status == mapEventToStatus(event)
        found == findSessionContainerByDockerId(rows, event.containerId)
    IN  IF status = "null" \/ event.session = "null" \/ found = {}
        THEN [rows |-> rows, published |-> <<>>]
        ELSE LET id == CHOOSE r \in found : TRUE
             IN  [rows |-> updateSessionContainerStatus(rows, id, status),
                  published |-> <<publishedDelta(event.session, updateDelta(kind, id, status))>>]

\* calculateNextRetryDelay
calculateNextRetryDelay(currentDelay) ==
    IF currentDelay * 2 < CONTAINER_MONITOR_MAX_RETRY_MS THEN currentDelay * 2
    ELSE CONTAINER_MONITOR_MAX_RETRY_MS

monFrame == <<recVars, paVars, refVars, busVars, ovVars, logVars, lsVars, pxVars, httpExchange,
             clVars, authVars, lateVars>>

\* the stream yields an event. A monitor the abort signal was raised for breaks out of
\* the loop; a container monitor maps and records the event; the network monitor resets
\* its retry delay (processEvent touches no row)
StreamEvent ==
    /\ monPc = "streaming"
    /\ \E event \in ContainerEvents :
           IF monAborted
           THEN /\ monPc' = "stopped"
                /\ monLast' = [kind |-> "break"]
                /\ UNCHANGED <<retryDelay, monFailures, monRows>>
           ELSE IF monKind = "network"
           THEN /\ retryDelay' = CONTAINER_MONITOR_INITIAL_RETRY_MS
                /\ monFailures' = 0
                /\ monLast' = [kind |-> "event", event |-> event, before |-> monRows,
                               published |-> <<>>]
                /\ UNCHANGED <<monPc, monRows>>
           ELSE LET result == processContainerEvent(monKind, monRows, event)
                IN  /\ monRows' = result.rows
                    /\ monFailures' = 0
                    /\ monLast' = [kind |-> "event", event |-> event, before |-> monRows,
                                   published |-> result.published]
                    /\ UNCHANGED <<monPc, retryDelay>>
    /\ UNCHANGED <<monKind, monAborted, monFrame>>

\* the delay a monitor sleeps after a failure of its stream
sleepDelay(kind, delay) ==
    CASE kind = "container" -> CONTAINER_MONITOR_RETRY_MS
      [] kind = "legacy" -> LEGACY_RETRY_MS
      [] OTHER -> delay

\* the stream throws: the catch returns if the signal is aborted, else it sleeps
StreamFails ==
    /\ monPc = "streaming"
    /\ monFailures < MaxFailures
    /\ IF monAborted
       THEN /\ monPc' = "stopped"
            /\ monLast' = [kind |-> "return"]
            /\ UNCHANGED monFailures
       ELSE /\ monPc' = "sleeping"
            /\ monFailures' = monFailures + 1
            /\ monLast' = [kind |-> "sleep", delay |-> sleepDelay(monKind, retryDelay)]
    /\ UNCHANGED <<monKind, monAborted, retryDelay, monRows, monFrame>>

\* the sleep is over: the network monitor doubles its delay; the while loop tests the
\* signal and reads the stream again (startContainerMonitor calls itself)
SleepDone ==
    /\ monPc = "sleeping"
    /\ retryDelay' = IF monKind = "network" THEN calculateNextRetryDelay(retryDelay)
                     ELSE retryDelay
    /\ IF monAborted
       THEN /\ monPc' = "stopped"
            /\ monLast' = [kind |-> "exit"]
       ELSE /\ monPc' = "streaming"
            /\ monLast' = [kind |-> "reconnect", cause |-> "failure",
                           failures |-> monFailures,
                           delay |-> sleepDelay(monKind, retryDelay)]
    /\ UNCHANGED <<monKind, monAborted, monFailures, monRows, monFrame>>

\* the stream ends without an error: the while loop of ContainerMonitor and of
\* NetworkReconcileMonitor reads the stream again at once; startContainerMonitor returns
StreamEnds ==
    /\ monPc = "streaming"
    /\ IF monAborted \/ monKind = "legacy"
       THEN /\ monPc' = "stopped"
            /\ monLast' = [kind |-> "exit"]
       ELSE /\ monPc' = "streaming"
            /\ monLast' = [kind |-> "reconnect", cause |-> "end", failures |-> monFailures,
                           delay |-> 0]
    /\ UNCHANGED <<monKind, monAborted, retryDelay, monFailures, monRows, monFrame>>

\* stop(): abortController.abort() (startContainerMonitor has no stop)
MonitorStop ==
    /\ monKind # "legacy"
    /\ monPc # "stopped"
    /\ ~monAborted
    /\ monAborted' = TRUE
    /\ monLast' = [kind |-> "stop"]
    /\ UNCHANGED <<monKind, monPc, retryDelay, monFailures, monRows, monFrame>>

MonitorNext ==
    \/ StreamEvent
    \/ StreamFails
    \/ SleepDone
    \/ StreamEnds
    \/ MonitorStop

\* one of the three monitors is started
MonitorInit ==
    /\ RecCore
    /\ LateInit
    /\ PxInit
    /\ httpExchange = NoExchange
    /\ \E kind \in MonitorKinds : MonInit(kind)
    /\ ClInit("sessions", <<>>)
    /\ AuthInit(0)

MonitorSpec == MonitorInit /\ [][MonitorNext]_vars

(***************************************************************************)
(* Properties of the container event monitors                              *)
(***************************************************************************)

\* the status the spec gives for an event, "null" for an event that is not mapped
MappedStatus(event) ==
    IF event.action = "start" THEN "running"
    ELSE IF event.action = "stop" \/ event.action = "die" \/ event.action = "kill" THEN "stopped"
    ELSE IF event.action = "restart" THEN "starting"
    ELSE IF event.action = "oom" THEN "error"
    ELSE IF event.action = "health_status" /\ event.health = "unhealthy" THEN "error"
    ELSE "null"

RowsWithRuntimeId(rows, dockerId) == {r \in MonRowIds : rows[r].dockerId = dockerId}

\* C27: an event of a container monitor that is mapped, carries the lab.session label
\* and whose runtime id matches a row sets that row's status to the mapped one and
\* publishes exactly one update delta with the row's id and that status on
\* sessionContainers/{sessionId}, and leaves the other rows alone; every other event
\* changes no row and publishes nothing.
C27_EventsMapToStatusDeltas ==
    (monLast.kind = "event" /\ monKind # "network") =>
        LET event == monLast.event
            status == MappedStatus(event)
            matching == RowsWithRuntimeId(monLast.before, event.containerId)
        IN  IF status # "null" /\ event.session # "null" /\ matching # {}
            THEN \E id \in matching :
                     /\ monRows = [monLast.before EXCEPT ![id].status = status]
                     /\ monLast.published =
                            <<publishedDelta(event.session, updateDelta(monKind, id, status))>>
            ELSE /\ monRows = monLast.before
                 /\ monLast.published = <<>>

\* a restart event of a running container has set the row back to starting and
\* published the delta
C27_Witness ==
    /\ monLast.kind = "event"
    /\ monKind = "container"
    /\ monLast.event.action = "restart"
    /\ monLast.before["r1"].status = "running"
    /\ monRows["r1"].status = "starting"
    /\ Len(monLast.published) = 1

\* the delay the spec gives after the k-th consecutive failure
BackoffDelay(k) ==
    IF 1000 * 2 ^ (k - 1) < 60000 THEN 1000 * 2 ^ (k - 1) ELSE 60000

\* C28: every reconnect of a monitor is preceded by a delay, which is 1 s after the
\* first failure, doubles with each further consecutive failure and never exceeds
\* 60 s; and a monitor stops only after it was told to stop.
C28_ReconnectBacksOff ==
    /\ monLast.kind = "reconnect" =>
           /\ monLast.delay > 0
           /\ monLast.delay <= 60000
           /\ monLast.cause = "failure" => monLast.delay = BackoffDelay(monLast.failures)
    /\ monPc = "stopped" => monAborted

(***************************************************************************)
(* The client's reducer of deltas                                          *)
(***************************************************************************)

\* deltas applied to one view
MaxApplied == 2

\* the key a channel's deltas carry the item under
ItemKey(channel) ==
    CASE channel = "sessions" -> "session"
      [] channel = "sessionContainers" -> "container"
      [] OTHER -> "file"

\* the items of deltas: whole items, and items with the id and one changed or new field
DeltaItems == Items \cup [id : ItemIds, status : {"x"}]

\* the deltas of a channel
Deltas(channel) ==
    [type : {"add", "remove", "update"}, key : {ItemKey(channel)}, item : DeltaItems]

Undefined == [undefined |-> TRUE]

\* getItem: d.project ?? d.file ?? d.message
getItem(d) == IF d.key \in {"project", "file", "message"} THEN d.item ELSE Undefined

\* isItemWithId: an object with an id
isItemWithId(value) == "id" \in DOMAIN value

\* {...c, ...item}
spread(c, item) ==
    [k \in DOMAIN c \cup DOMAIN item |-> IF k \in DOMAIN item THEN item[k] ELSE c[k]]

\* current.filter(keep)
RECURSIVE filterOut(_, _)
filterOut(items, id) ==
    IF items = <<>> THEN <<>>
    ELSE IF isItemWithId(Head(items)) /\ Head(items).id = id THEN filterOut(Tail(items), id)
    ELSE <<Head(items)>> \o filterOut(Tail(items), id)

\* {...current, ...delta}: an object, with the indices of an array as keys
Object(current, delta) == [kind |-> "object", of |-> current, merged |-> delta]

\* applyDelta, for a channel whose config has a delta
applyDelta(current, delta) ==
    LET item == getItem(delta)
    IN  IF current.kind = "array" /\ delta.type = "add" /\ item # Undefined
        THEN Array(Append(current.items, item))
        ELSE IF current.kind = "array" /\ delta.type = "remove" /\ isItemWithId(item)
        THEN Array(filterOut(current.items, item.id))
        ELSE IF current.kind = "array" /\ delta.type = "update" /\ isItemWithId(item)
        THEN Array([i \in DOMAIN current.items |->
                        IF isItemWithId(current.items[i]) /\ current.items[i].id = item.id
                        THEN spread(current.items[i], item)
                        ELSE current.items[i]])
        ELSE Object(current, delta)

clFrame == <<recVars, paVars, refVars, busVars, ovVars, logVars, lsVars, pxVars, httpExchange,
            monVars, authVars, lateVars>>

\* a delta message arrives for the view: setState(data: applyDelta(prev.data, message.data))
DeltaMessage ==
    /\ \E delta \in Deltas(clientChannel) :
           /\ lastDelta.applied < MaxApplied
           /\ clientData' = applyDelta(clientData, delta)
           /\ lastDelta' = [type |-> delta.type, item |-> delta.item, before |-> clientData,
                            applied |-> lastDelta.applied + 1]
    /\ UNCHANGED <<clientChannel, clFrame>>

\* a view has connected to an array channel and was sent its snapshot
ClientInit ==
    /\ RecCore
    /\ LateInit
    /\ PxInit
    /\ httpExchange = NoExchange
    /\ MonInit("container")
    /\ \E channel \in ArrayChannels, items \in Snapshots : ClInit(channel, items)
    /\ AuthInit(0)

ClientSpec == ClientInit /\ [][DeltaMessage]_vars

(***************************************************************************)
(* Properties of the client's reducer                                      *)
(***************************************************************************)

\* the indices of the elements of an array that do not have the id
Others(items, id) == {i \in DOMAIN items : items[i].id # id}

\* C29: a delta applied to the array of an array channel gives an array: after an add,
\* the old array with the item at its end; after a remove, the old elements whose id is
\* not the item's, in their order; after an update, the old array with the item's fields
\* put over those of each element with the item's id.
C29_DeltaAppliesToArray ==
    (lastDelta.type # "none" /\ lastDelta.before.kind = "array") =>
        LET old == lastDelta.before.items
            item == lastDelta.item
        IN  /\ clientData.kind = "array"
            /\ lastDelta.type = "add" => clientData.items = Append(old, item)
            /\ lastDelta.type = "remove" =>
                   /\ Len(clientData.items) = Cardinality(Others(old, item.id))
                   /\ \A i \in DOMAIN clientData.items : clientData.items[i].id # item.id
                   /\ \A i, j \in Others(old, item.id) :
                          i < j => \E k, l \in DOMAIN clientData.items :
                                       k < l /\ clientData.items[k] = old[i]
                                             /\ clientData.items[l] = old[j]
            /\ lastDelta.type = "update" =>
                   /\ Len(clientData.items) = Len(old)
                   /\ \A i \in DOMAIN old :
                          IF old[i].id = item.id
                          THEN /\ \A k \in DOMAIN item : clientData.items[i][k] = item[k]
                               /\ \A k \in DOMAIN old[i] \ DOMAIN item :
                                      clientData.items[i][k] = old[i][k]
                               /\ DOMAIN clientData.items[i] = DOMAIN old[i] \cup DOMAIN item
                          ELSE clientData.items[i] = old[i]

(***************************************************************************)
(* The Claude-auth event stream                                            *)
(***************************************************************************)

\* events emitted while streams are followed
MaxEmits == 3

\* the numbers of events a manager has emitted before: none, a buffer one short of its
\* limit, a full buffer, a buffer that has dropped events
EmittedBefore == {0, EVENT_BUFFER_LIMIT - 1, EVENT_BUFFER_LIMIT, EVENT_BUFFER_LIMIT + 2}

\* the Last-Event-ID values of a connect: no header (-1), or the id of an event the
\* manager has emitted: the first one or one of the last
LastEventIds(counter) == {-1} \cup {k \in {0} \cup (counter - 3 .. counter - 1) : 0 <= k /\ k < counter}

getEventsSinceInclusive(buffer, lastId) ==
    IF lastId < 0 THEN buffer ELSE SelectSeq(buffer, LAMBDA id : id >= lastId)

\* getEventsSince: the whole buffer for a negative id, else the events with a greater id
getEventsSince(buffer, lastId) ==
    IF lastId < 0 THEN buffer ELSE SelectSeq(buffer, LAMBDA id : id > lastId)

\* the push and shift of emit
pushEvent(buffer, id) ==
    LET pushed == Append(buffer, id)
    IN  IF Len(pushed) > EVENT_BUFFER_LIMIT THEN Tail(pushed) ELSE pushed

authFrame == <<recVars, paVars, refVars, busVars, ovVars, logVars, lsVars, pxVars, httpExchange,
              monVars, clVars, lateVars>>

\* handleClaudeAuthEvents: start(controller) enqueues the replay and subscribes, in one
\* synchronous call
StreamConnect ==
    /\ \E c \in EventStreams, lastEventId \in LastEventIds(eventCounter) :
           /\ streamState[c] = "none"
           /\ enqueued' = [enqueued EXCEPT ![c] = getEventsSince(eventBuffer, lastEventId)]
           /\ subscribers' = subscribers \cup {c}
           /\ streamState' = [streamState EXCEPT ![c] = "open"]
           /\ connectedWith' = [connectedWith EXCEPT ![c] =
                                    [lastEventId |-> lastEventId,
                                     first |-> IF eventBuffer = <<>> THEN eventCounter
                                               ELSE Head(eventBuffer)]]
    /\ UNCHANGED <<eventCounter, eventBuffer, authFrame>>

\* emit: the event gets the next id, is buffered, and every subscriber is called; the
\* enqueue of a cancelled stream throws and the subscriber unsubscribes
Emit ==
    /\ eventCounter < MaxEmits + CHOOSE n \in EmittedBefore :
                                     /\ n <= eventCounter
                                     /\ \A m \in EmittedBefore : m <= eventCounter => m <= n
    /\ eventCounter' = eventCounter + 1
    /\ eventBuffer' = pushEvent(eventBuffer, eventCounter)
    /\ enqueued' = [c \in EventStreams |->
                        IF c \in subscribers /\ streamState[c] = "open"
                        THEN Append(enqueued[c], eventCounter)
                        ELSE enqueued[c]]
    /\ subscribers' = {c \in subscribers : streamState[c] = "open"}
    /\ UNCHANGED <<streamState, connectedWith, authFrame>>

\* the client cancels the stream it reads; the request is not aborted yet
StreamCancel ==
    /\ \E c \in EventStreams :
           /\ streamState[c] = "open"
           /\ streamState' = [streamState EXCEPT ![c] = "cancelled"]
    /\ UNCHANGED <<eventCounter, eventBuffer, subscribers, enqueued, connectedWith, authFrame>>

\* request.signal fires abort: unsubscribe() and controller.close()
StreamAbort ==
    /\ \E c \in EventStreams :
           /\ streamState[c] \in {"open", "cancelled"}
           /\ subscribers' = subscribers \ {c}
           /\ streamState' = [streamState EXCEPT ![c] = "closed"]
    /\ UNCHANGED <<eventCounter, eventBuffer, enqueued, connectedWith, authFrame>>

AuthNext ==
    \/ StreamConnect
    \/ Emit
    \/ StreamCancel
    \/ StreamAbort

\* a manager that has emitted some events, with no stream connected
AuthStreamInit ==
    /\ RecCore
    /\ LateInit
    /\ PxInit
    /\ httpExchange = NoExchange
    /\ MonInit("container")
    /\ ClInit("sessions", <<>>)
    /\ \E n \in EmittedBefore : AuthInit(n)

AuthSpec == AuthStreamInit /\ [][AuthNext]_vars

(***************************************************************************)
(* Properties of the Claude-auth event stream                              *)
(***************************************************************************)

\* the first id a stream is owed: the one after its Last-Event-ID, or the oldest one
\* buffered at its connect if that is later
FirstOwed(c) ==
    IF connectedWith[c].lastEventId + 1 > connectedWith[c].first
    THEN connectedWith[c].lastEventId + 1
    ELSE connectedWith[c].first

\* C30: a stream connected with Last-Event-ID = k has been sent the buffered events with
\* an id greater than k and then the events emitted since, each once and in id order
\* with none skipped; the ids buffered are consecutive and increasing, end at the last
\* id given out, and are never more than 256.
C30_ReplayThenLive ==
    /\ \A c \in EventStreams :
           streamState[c] = "open" => enqueued[c] = IdRange(FirstOwed(c), eventCounter - 1)
    /\ Len(eventBuffer) <= EVENT_BUFFER_LIMIT
    /\ eventBuffer = IdRange(eventCounter - Len(eventBuffer), eventCounter - 1)

\* a stream that reconnected with the id of an event still buffered, after the buffer
\* had dropped events, was replayed events and then sent a live one
C30_Witness ==
    \E c \in EventStreams :
        /\ streamState[c] = "open"
        /\ connectedWith[c].lastEventId >= connectedWith[c].first
        /\ connectedWith[c].first > 0
        /\ Len(enqueued[c]) >= 2
        /\ enqueued[c][1] = connectedWith[c].lastEventId + 1
        /\ eventCounter > enqueued[c][1] + 1
        /\ Len(eventBuffer) = EVENT_BUFFER_LIMIT

(***************************************************************************)
(* DockerRuntimeManager.startContainer over a sandbox provider whose calls *)
(* can fail.                                                               *)
(***************************************************************************)
rtFrame == <<recVars, paVars, refVars, busVars, ovVars, logVars, lsVars, pxVars, httpExchange,
            monVars, clVars, authVars, msgVars>>

\* input.networkAliases: none, or `<sessionId>--<port>` for the declared ports
AliasSets == {{}, {"s--80"}, {"s--80", "s--3000"}}

\* what the provider does in one startContainer call: whether createContainer,
\* startContainer, the first isConnectedToNetwork, disconnectFromNetwork and
\* removeContainer succeed, whether the created container is on the network, and
\* whether connectToNetwork connects, returns without connecting, or throws
ProviderReplies ==
    [createOk : BOOLEAN, attached : BOOLEAN, startOk : BOOLEAN, probeOk : BOOLEAN,
     disconnectOk : BOOLEAN, connect : {"ok", "silent", "throw"}, removeOk : BOOLEAN]

\* provider.removeContainer(runtimeId).catch(() => undefined)
removeContainer(containers, id, ok) ==
    IF ok THEN [containers EXCEPT ![id] = NoContainer] ELSE containers

StartOutcome(containers, seq, outcome, runtimeId, calls) ==
    [containers |-> containers, seq |-> seq, outcome |-> outcome, runtimeId |-> runtimeId,
     calls |-> calls]

startContainer(containers, seq, input, r) ==
    LET id == seq + 1
        created == [containers EXCEPT ![id] =
                       [exists |-> TRUE, started |-> FALSE, connected |-> r.attached,
                        aliases |-> {}]]
        started == [created EXCEPT ![id].started = TRUE]
        isConnected == started[id].connected
        disconnected == [started EXCEPT ![id].connected = FALSE]
        c1 == <<"createContainer", "startContainer">>
        c2 == c1 \o <<"isConnectedToNetwork">>
        c3 == IF isConnected THEN c2 \o <<"disconnectFromNetwork">> ELSE c2
        c4 == c3 \o <<"connectToNetwork">>
        c5 == c4 \o <<"isConnectedToNetwork">>
    IN  IF ~r.createOk
        THEN StartOutcome(containers, seq, "threw", 0, <<"createContainer">>)
        ELSE IF ~r.startOk
        THEN StartOutcome(removeContainer(created, id, r.removeOk), id, "threw", id,
                          c1 \o <<"removeContainer">>)
        ELSE IF input.networkAliases = {}
        THEN StartOutcome(started, id, "returned", id, c1)
        ELSE IF ~r.probeOk
        THEN StartOutcome(removeContainer(started, id, r.removeOk), id, "threw", id,
                          c2 \o <<"removeContainer">>)
        ELSE IF isConnected /\ ~r.disconnectOk
        THEN StartOutcome(removeContainer(started, id, r.removeOk), id, "threw", id,
                          c3 \o <<"removeContainer">>)
        ELSE IF r.connect = "throw"
        THEN StartOutcome(removeContainer(disconnected, id, r.removeOk), id, "threw", id,
                          c4 \o <<"removeContainer">>)
        ELSE IF r.connect = "silent"
        THEN StartOutcome(removeContainer(disconnected, id, r.removeOk), id, "threw", id,
                          c5 \o <<"removeContainer">>)
        ELSE StartOutcome([started EXCEPT ![id].connected = TRUE,
                                          ![id].aliases = input.networkAliases],
                          id, "returned", id, c5)

\* a caller awaits runtimeManager.startContainer(input)
StartContainer ==
    /\ runtimeSeq < MaxStarts
    /\ \E aliases \in AliasSets, r \in ProviderReplies :
          LET res == startContainer(providerContainers, runtimeSeq,
                                    [networkAliases |-> aliases], r)
          IN  /\ providerContainers' = res.containers
              /\ runtimeSeq' = res.seq
              /\ lastStart' = [outcome |-> res.outcome, runtimeId |-> res.runtimeId,
                               calls |-> res.calls, aliases |-> aliases,
                               attached |-> r.attached]
    /\ UNCHANGED rtFrame

RuntimeSpec == RecInit /\ [][StartContainer]_vars

Called(calls, name) == \E i \in DOMAIN calls : calls[i] = name

\* C39: a startContainer call that returns leaves its container created, started
\* and, when aliases were asked for, on the network under those aliases, with a
\* disconnect made exactly when the container was connected already; a call that
\* throws leaves no container of its own behind.
C39_StartedOrRemoved ==
    /\ lastStart.outcome = "returned" =>
          LET container == providerContainers[lastStart.runtimeId]
          IN  /\ container.exists
              /\ container.started
              /\ lastStart.aliases # {} =>
                    /\ container.connected
                    /\ container.aliases = lastStart.aliases
                    /\ Called(lastStart.calls, "disconnectFromNetwork") <=> lastStart.attached
              /\ lastStart.aliases = {} => ~Called(lastStart.calls, "disconnectFromNetwork")
    /\ lastStart.outcome = "threw" =>
          \/ lastStart.runtimeId = 0
          \/ ~providerContainers[lastStart.runtimeId].exists

(***************************************************************************)
(* SessionMessagesProjector: the messages projected from the agent events  *)
(* of a session.                                                           *)
(***************************************************************************)
msgFrame == <<recVars, paVars, refVars, busVars, ovVars, logVars, lsVars, pxVars, httpExchange,
             monVars, clVars, authVars, rtVars>>

\* the projector's fields as one value
Projector ==
    [messages |-> messages, toolCallToMessageId |-> toolCallToMessageId,
     activeAssistantMessageId |-> activeAssistantMessageId,
     messageCounter |-> messageCounter]

TextPart(text) ==
    [type |-> "text", id |-> "", text |-> text, status |-> "", hasOutput |-> FALSE,
     hasError |-> FALSE]

ToolCallPart(callId, status) ==
    [type |-> "tool_call", id |-> callId, text |-> <<>>, status |-> status,
     hasOutput |-> FALSE, hasError |-> FALSE]

ToolResultPart(callId, isError) ==
    [type |-> "tool_result", id |-> callId, text |-> <<>>, status |-> "",
     hasOutput |-> ~isError, hasError |-> isError]

\* the envelopes of a run: user messages and agent chunks with or without text, tool
\* calls, tool call updates with and without an output, prompt results, anything else
Envelopes ==
    [type : {"user_message", "agent_message_chunk"}, text : {<<>>, <<"a">>}, callId : {""},
     status : {""}, hasOutput : {FALSE}]
    \cup [type : {"tool_call"}, text : {<<>>}, callId : CallIds \cup {""}, status : {""},
          hasOutput : {FALSE}]
    \cup [type : {"tool_call_update"}, text : {<<>>}, callId : CallIds,
          status : {"in_progress", "completed", "failed"}, hasOutput : {FALSE}]
    \cup [type : {"tool_call_update"}, text : {<<>>}, callId : CallIds \cup {""},
          status : {"in_progress"}, hasOutput : {TRUE}]
    \cup [type : {"stop", "result", "other"}, text : {<<>>}, callId : {""}, status : {""},
          hasOutput : {FALSE}]

\* extractToolCallOutput: the output, "" for a terminal status without one, else null
extractToolCallOutput(update) ==
    IF update.hasOutput THEN "out"
    ELSE IF update.status \in {"completed", "failed", "error"} THEN ""
    ELSE "null"

\* this.messageById.get(id): the index of the message in this.messages, 0 for none
messageById(projector, id) ==
    LET found == {i \in DOMAIN projector.messages : projector.messages[i].id = id}
    IN  IF found = {} THEN 0 ELSE CHOOSE i \in found : \A j \in found : j <= i

\* parts.find(part => part.type === type && part.id === callId): its index, 0 for none
FindPart(parts, type, callId) ==
    LET found == {k \in DOMAIN parts : parts[k].type = type /\ parts[k].id = callId}
    IN  IF found = {} THEN 0 ELSE CHOOSE k \in found : \A j \in found : k <= j

\* a projector and the index of the message a helper returned
Target(projector, at) == [projector |-> projector, at |-> at]

appendMessage(projector, message) ==
    [projector EXCEPT !.messages = Append(@, message)]

createAssistantMessage(projector, sequence) ==
    LET id == <<"assistant", sequence, projector.messageCounter + 1>>
        counted == [projector EXCEPT !.messageCounter = @ + 1]
        appended == appendMessage(counted, [id |-> id, role |-> "assistant", parts |-> <<>>])
    IN  [appended EXCEPT !.activeAssistantMessageId = id]

getActiveAssistantMessage(projector) ==
    IF projector.activeAssistantMessageId = NoId THEN 0
    ELSE messageById(projector, projector.activeAssistantMessageId)

ensureAssistantMessage(projector, sequence, splitWhenToolPartsExist) ==
    LET active == getActiveAssistantMessage(projector)
        hasToolParts ==
            \E k \in DOMAIN projector.messages[active].parts :
                projector.messages[active].parts[k].type \in {"tool_call", "tool_result"}
        created == createAssistantMessage(projector, sequence)
    IN  IF active # 0 /\ ~(splitWhenToolPartsExist /\ hasToolParts)
        THEN Target(projector, active)
        ELSE Target(created, Len(created.messages))

\* resolveToolMessage that does not look the tool call up
resolveToolMessageIgnoresMap(projector, callId, sequence) ==
    LET target == ensureAssistantMessage(projector, sequence, FALSE)
    IN  Target([target.projector EXCEPT !.toolCallToMessageId[callId] =
                   target.projector.messages[target.at].id], target.at)

resolveToolMessage(projector, callId, sequence) ==
    LET messageId == projector.toolCallToMessageId[callId]
        at == IF messageId = NoId THEN 0 ELSE messageById(projector, messageId)
        target == ensureAssistantMessage(projector, sequence, FALSE)
    IN  IF at # 0 THEN Target(projector, at)
        ELSE Target([target.projector EXCEPT !.toolCallToMessageId[callId] =
                        target.projector.messages[target.at].id], target.at)

handleUserMessage(projector, update, sequence) ==
    IF update.text = <<>> THEN projector
    ELSE appendMessage([projector EXCEPT !.activeAssistantMessageId = NoId],
                       [id |-> <<"user", sequence>>, role |-> "user",
                        parts |-> <<TextPart(update.text)>>])

handleAgentChunk(projector, update, sequence) ==
    IF update.text = <<>> THEN projector
    ELSE LET target == ensureAssistantMessage(projector, sequence, TRUE)
             parts == target.projector.messages[target.at].parts
         IN  IF Len(parts) > 0 /\ parts[Len(parts)].type = "text"
             THEN [target.projector EXCEPT
                      !.messages[target.at].parts[Len(parts)].text = @ \o update.text]
             ELSE [target.projector EXCEPT
                      !.messages[target.at].parts = Append(@, TextPart(update.text))]

handleToolCall(projector, update, sequence) ==
    LET callId == update.callId
        existingMessageId == projector.toolCallToMessageId[callId]
        existingMessage == IF existingMessageId = NoId THEN 0
                           ELSE messageById(projector, existingMessageId)
        activeMessage == getActiveAssistantMessage(projector)
        shouldStartNewMessage ==
            activeMessage # 0 /\ Len(projector.messages[activeMessage].parts) > 0
        created == createAssistantMessage(projector, sequence)
        target == IF shouldStartNewMessage THEN Target(created, Len(created.messages))
                  ELSE ensureAssistantMessage(projector, sequence, FALSE)
        message == target.projector.messages[target.at]
        pushed == IF FindPart(message.parts, "tool_call", callId) = 0
                  THEN [target.projector EXCEPT !.messages[target.at].parts =
                           Append(@, ToolCallPart(callId, "in_progress"))]
                  ELSE target.projector
    IN  IF callId = "" THEN projector
        ELSE IF /\ existingMessage # 0
                /\ FindPart(projector.messages[existingMessage].parts, "tool_call",
                            callId) # 0
        THEN [projector EXCEPT
                 !.activeAssistantMessageId = projector.messages[existingMessage].id]
        ELSE [pushed EXCEPT !.toolCallToMessageId[callId] = message.id]

handleToolCallUpdate(projector, update, sequence) ==
    LET callId == update.callId
        target == resolveToolMessage(projector, callId, sequence)
        at == target.at
        isError == update.status \in {"failed", "error"}
        nextStatus == IF isError THEN "error" ELSE "completed"
        toolCallPart == FindPart(target.projector.messages[at].parts, "tool_call", callId)
        withCall == IF toolCallPart # 0
                    THEN [target.projector EXCEPT
                             !.messages[at].parts[toolCallPart].status = nextStatus]
                    ELSE [target.projector EXCEPT !.messages[at].parts =
                             Append(@, ToolCallPart(callId, nextStatus))]
        existingResult == FindPart(withCall.messages[at].parts, "tool_result", callId)
    IN  IF callId = "" THEN projector
        ELSE IF extractToolCallOutput(update) = "null" THEN projector
        ELSE IF existingResult # 0
        THEN IF isError
             THEN [withCall EXCEPT !.messages[at].parts[existingResult].hasError = TRUE]
             ELSE [withCall EXCEPT !.messages[at].parts[existingResult].hasOutput = TRUE]
        ELSE [withCall EXCEPT !.messages[at].parts =
                 Append(@, ToolResultPart(callId, isError))]

applyEnvelope(projector, envelope, sequence) ==
    CASE envelope.type = "stop" -> [projector EXCEPT !.activeAssistantMessageId = NoId]
      [] envelope.type = "user_message" -> handleUserMessage(projector, envelope, sequence)
      [] envelope.type = "agent_message_chunk" ->
            handleAgentChunk(projector, envelope, sequence)
      [] envelope.type = "tool_call" -> handleToolCall(projector, envelope, sequence)
      [] envelope.type = "tool_call_update" ->
            handleToolCallUpdate(projector, envelope, sequence)
      [] OTHER -> projector

\* projectSessionMessages applies the next event; its sequence number is one no
\* earlier event had
ApplyEnvelope ==
    /\ Cardinality(applied) < MaxEvents
    /\ \E envelope \in Envelopes, sequence \in (1 .. MaxEvents) \ applied :
          LET projector == applyEnvelope(Projector, envelope, sequence)
          IN  /\ messages' = projector.messages
              /\ toolCallToMessageId' = projector.toolCallToMessageId
              /\ activeAssistantMessageId' = projector.activeAssistantMessageId
              /\ messageCounter' = projector.messageCounter
              /\ applied' = applied \cup {sequence}
              /\ lastMessages' = messages
    /\ UNCHANGED msgFrame

ProjectorSpec == RecInit /\ [][ApplyEnvelope]_vars

\* where the parts of a type for a tool call are: <<message index, part index>>
PartsFor(type, callId) ==
    {at \in (DOMAIN messages) \X (1 .. 2 * MaxEvents) :
        /\ at[2] \in DOMAIN messages[at[1]].parts
        /\ messages[at[1]].parts[at[2]].type = type
        /\ messages[at[1]].parts[at[2]].id = callId}

\* C40: the messages before an event are, in id and role, a prefix of the messages
\* after it; the ids of the messages are pairwise distinct; and for every tool call
\* id there is at most one tool_call part and at most one tool_result part, both in
\* the same message.
C40_MessagesGrowAndToolPartsUnique ==
    /\ Len(lastMessages) <= Len(messages)
    /\ \A i \in DOMAIN lastMessages :
          /\ messages[i].id = lastMessages[i].id
          /\ messages[i].role = lastMessages[i].role
    /\ \A i \in DOMAIN messages, j \in DOMAIN messages :
          i # j => messages[i].id # messages[j].id
    /\ \A callId \in CallIds :
          /\ Cardinality(PartsFor("tool_call", callId)) <= 1
          /\ Cardinality(PartsFor("tool_result", callId)) <= 1
          /\ \A call \in PartsFor("tool_call", callId),
                result \in PartsFor("tool_result", callId) : call[1] = result[1]

\* the result of a tool call arrived after a user message and a later assistant
\* message, and went into the earlier message that holds the call
C40_Witness ==
    \E callId \in CallIds :
        \E call \in PartsFor("tool_call", callId), result \in PartsFor("tool_result", callId) :
            /\ call[1] = result[1]
            /\ call[1] < Len(messages)
            /\ Len(messages) > Len(lastMessages)
            /\ \E i \in DOMAIN messages : messages[i].role = "user"

====
